---- MODULE Spec2Model ----
(***************************************************************************)
(* File Extractor Pro: the status channel (FileProcessor._enqueue_message) *)
(* and the extraction coordinator (ExtractorService).                      *)
(*                                                                         *)
(* The channel is a queue.Queue with maxsize > 0.  Every queue operation   *)
(* (put_nowait, get_nowait, put) is one atomic step, as the queue's own    *)
(* mutex makes it; everything between two queue operations is local to the *)
(* calling thread and is folded into the step that follows it.  ChannelSpec *)
(* runs _enqueue_message at that grain; in Spec a worker's call of it is   *)
(* a single step, and the coordinator's own queue operations are the steps. *)
(***************************************************************************)
EXTENDS Integers, Sequences, FiniteSets, TLC

\* ------------------------------------------------------------------ bounds
MaxCapacity == 2      \* largest queue maxsize explored
MaxPublishes == 3     \* publishes of the single producer in ChannelSpec
MaxThreads == 2       \* worker threads that exist at the same time
MaxFiles == 1         \* files one run of extract_files attempts
MaxRecords == 1       \* file records the summary holds before it is full
NumCallers == 1       \* caller threads using the service
MaxTreeFiles == 1     \* files of the folder besides the specification files
MaxSuccessive == 2    \* runs made one after the other in RunSpec
MaxFaulty == 1        \* files of the folder with an attempt that fails
MaxCancels == 1       \* calls of cancel in RunSpec

Runs == 1..MaxThreads
Callers == 1..NumCallers
Producer == CHOOSE t \in Runs : \A u \in Runs : t <= u

VARIABLES
    queue,            \* output_queue content, oldest first
    maxsize,          \* output_queue.maxsize
    dropped_messages, \* FileProcessor._dropped_messages
    max_queue_depth,  \* FileProcessor._max_queue_depth
    enq,              \* per thread: the locals of a running _enqueue_message
    published,        \* ChannelSpec: calls of _enqueue_message made so far
    hist,             \* ChannelSpec: the channel as it was at the last call
    thread,           \* ExtractorService._thread: 0 is None, else the thread
    alive,            \* the worker threads started and not yet ended
    cancel_event,     \* ExtractorService._cancel_event
    cpc,              \* per caller: position in start_extraction / cancel
    wpc,              \* per thread: position of the worker in _run_extraction
    wloc,             \* per thread: locals of _run_extraction / extract_files
    pub,              \* per thread: locals of _publish_state_update
    summary,          \* FileProcessor.extraction_summary: files recorded
    tree,             \* RunSpec: the folder and the request, fixed for a behaviour
    xf,               \* RunSpec: locals of extract_files and process_file
    output,           \* RunSpec: content of the output file, as written pieces
    processed_files,  \* FileProcessor.processed_files
    extraction_summary, \* FileProcessor.extraction_summary, entry by entry
    progress,         \* RunSpec: the calls of progress_callback of the run
    metrics,          \* FileProcessor._last_run_metrics
    ended,            \* RunSpec: what each completed run left, oldest first
    scan,             \* ScanSpec: a call of _iter_eligible_file_paths
    norm,             \* NormSpec: a call of normalise_extension_tokens
    req,              \* StartSpec: a call of ExtractorService.start_extraction
    gui               \* GuiSpec: the window, FileExtractorGUI, and its event loop

chanVars == <<queue, maxsize, dropped_messages, max_queue_depth>>
svcVars == <<thread, alive, cancel_event, cpc, wpc, wloc, pub, summary>>
callVars == <<scan, norm, req, gui>>
fileVars == <<tree, xf, output, processed_files, extraction_summary, progress,
              metrics, ended, callVars>>
vars == <<queue, maxsize, dropped_messages, max_queue_depth, enq, published, hist,
          thread, alive, cancel_event, cpc, wpc, wloc, pub, summary, fileVars>>

\* ---------------------------------------------------------------- messages
\* A status message (level, payload).  The payload of a state message is the
\* dict {status, result, message?}; text stands for the other payloads.
Msg(level, text, result) == [level |-> level, text |-> text, result |-> result]

Levels == {"info", "warning", "error", "state"}

OldText == <<"old1", "old2", "old3", "old4">>
NewText == <<"new1", "new2", "new3", "new4", "new5">>

IsState(m) == m.level = "state"

StatesOf(s) == SelectSeq(s, IsState)

RemoveAt(s, i) == SubSeq(s, 1, i - 1) \o SubSeq(s, i + 1, Len(s))

\* Queue._qsize() >= maxsize: put_nowait raises Full
QFull == Len(queue) >= maxsize

\* _record_queue_depth after a successful put: the depth seen is the new size
RecordDepth(depth, q) == IF Len(q) > depth THEN Len(q) ELSE depth

\* -------------------------------------------------- _enqueue_message locals
\* cycles and outcome are history of the call: the drain cycles it made and
\* how it ended
EnqIdle == [pc |-> "idle", msg |-> Msg("info", "", ""), attempts |-> 0,
            drained_local |-> <<>>, restore |-> <<>>, retval |-> FALSE,
            cycles |-> 0, outcome |-> "none"]

\* the call: payload = (level, message); attempts = 0; enter the while loop
EnqCall(m) == [EnqIdle EXCEPT !.pc = "put", !.msg = m]

\* drain_for_capacity, lines 132-136: index of the first non-state entry of
\* the drained list, 0 when there is none.  (FirstNonStateMut is the faulty
\* variant that takes the oldest entry whatever its level.)
FirstNonStateMut(drained) == IF drained # <<>> THEN 1 ELSE 0

FirstNonState(drained) ==
    IF \E i \in 1..Len(drained) : ~IsState(drained[i])
    THEN CHOOSE i \in 1..Len(drained) :
            /\ ~IsState(drained[i])
            /\ \A j \in 1..(i - 1) : IsState(drained[j])
    ELSE 0

\* drain_for_capacity, lines 138-157: the entry to drop (0: none, the drained
\* entries are restored and the call reports no capacity).  Faulty variants:
\* DropIndexMut ignores allow_state_eviction, DropIndexOldest always drops the
\* oldest entry, DropIndexNewest evicts the newest state instead of the oldest.
DropIndexMut(drained, allow_state_eviction) ==
    IF FirstNonState(drained) # 0 THEN FirstNonState(drained) ELSE 1

DropIndexOldest(drained, allow_state_eviction) ==
    IF drained # <<>> THEN 1 ELSE 0

DropIndexNewest(drained, allow_state_eviction) ==
    IF FirstNonState(drained) # 0 THEN FirstNonState(drained)
    ELSE IF allow_state_eviction THEN Len(drained) ELSE 0

DropIndex(drained, allow_state_eviction) ==
    IF FirstNonState(drained) # 0 THEN FirstNonState(drained)
    ELSE IF allow_state_eviction THEN 1 ELSE 0

\* _enqueue_message, line 190: give up after a drain that made no room
\* (GiveUpMut is the faulty variant that allows one more attempt)
GiveUpMut(drained, attempts) == ~drained /\ attempts > 2

GiveUp(drained, attempts) == ~drained /\ attempts > 1

\* the return of drain_for_capacity into the while loop (lines 187-197)
AfterDrain(t, e, drained, dropped) ==
    IF GiveUp(drained, e.attempts)
    THEN /\ enq' = [enq EXCEPT ![t] = [e EXCEPT !.pc = "done", !.outcome = "discarded"]]
         /\ dropped_messages' = dropped + 1
    ELSE /\ enq' = [enq EXCEPT ![t] = [e EXCEPT !.pc = "put"]]
         /\ dropped_messages' = dropped

\* lines 180-186: put_nowait(payload); on Full count the attempt and start
\* drain_for_capacity with an empty drained_local
EnqPut(t) ==
    /\ enq[t].pc = "put"
    /\ IF ~QFull
       THEN /\ queue' = Append(queue, enq[t].msg)
            /\ max_queue_depth' = RecordDepth(max_queue_depth, queue')
            /\ enq' = [enq EXCEPT ![t].pc = "done", ![t].outcome = "enqueued"]
       ELSE /\ enq' = [enq EXCEPT ![t].pc = "drain", ![t].attempts = @ + 1,
                                  ![t].cycles = @ + 1, ![t].drained_local = <<>>]
            /\ UNCHANGED <<queue, max_queue_depth>>
    /\ UNCHANGED <<maxsize, dropped_messages, published, hist>>
    /\ UNCHANGED svcVars
    /\ UNCHANGED fileVars

\* lines 123-127: one get_nowait that returns an entry
EnqDrainGet(t) ==
    /\ enq[t].pc = "drain"
    /\ queue # <<>>
    /\ queue' = Tail(queue)
    /\ enq' = [enq EXCEPT ![t].drained_local = Append(@, Head(queue))]
    /\ UNCHANGED <<maxsize, dropped_messages, max_queue_depth, published, hist>>
    /\ UNCHANGED svcVars
    /\ UNCHANGED fileVars

\* lines 126-158: get_nowait raises Empty; choose what to drop and what to
\* restore.  Nothing drained: return False at once.
EnqDrainEmpty(t) ==
    /\ enq[t].pc = "drain"
    /\ queue = <<>>
    /\ LET e == enq[t]
           d == e.drained_local
           k == DropIndex(d, IsState(e.msg))
       IN  IF d = <<>>
           THEN AfterDrain(t, e, FALSE, dropped_messages)
           ELSE IF k = 0
           THEN /\ enq' = [enq EXCEPT ![t].pc = "restore", ![t].restore = d,
                                      ![t].retval = FALSE]
                /\ UNCHANGED dropped_messages
           ELSE /\ enq' = [enq EXCEPT ![t].pc = "restore",
                                      ![t].restore = RemoveAt(d, k),
                                      ![t].retval = TRUE]
                /\ dropped_messages' = dropped_messages + 1
    /\ UNCHANGED <<queue, maxsize, max_queue_depth, published, hist>>
    /\ UNCHANGED svcVars
    /\ UNCHANGED fileVars

\* lines 140-150 and 160-170: put_nowait(restored) for the next entry to
\* restore; on Full count a drop, abandon the rest and return False
EnqRestorePut(t) ==
    /\ enq[t].pc = "restore"
    /\ enq[t].restore # <<>>
    /\ IF ~QFull
       THEN /\ queue' = Append(queue, Head(enq[t].restore))
            /\ max_queue_depth' = RecordDepth(max_queue_depth, queue')
            /\ enq' = [enq EXCEPT ![t].restore = Tail(@)]
            /\ UNCHANGED dropped_messages
       ELSE /\ AfterDrain(t, [enq[t] EXCEPT !.restore = <<>>], FALSE,
                          dropped_messages + 1)
            /\ UNCHANGED <<queue, max_queue_depth>>
    /\ UNCHANGED <<maxsize, published, hist>>
    /\ UNCHANGED svcVars
    /\ UNCHANGED fileVars

\* lines 151-154 and 172-175: every entry restored, drain_for_capacity returns
EnqRestoreDone(t) ==
    /\ enq[t].pc = "restore"
    /\ enq[t].restore = <<>>
    /\ AfterDrain(t, enq[t], enq[t].retval, dropped_messages)
    /\ UNCHANGED <<queue, maxsize, max_queue_depth, published, hist>>
    /\ UNCHANGED svcVars
    /\ UNCHANGED fileVars

EnqStep(t) ==
    \/ EnqPut(t)
    \/ EnqDrainGet(t)
    \/ EnqDrainEmpty(t)
    \/ EnqRestorePut(t)
    \/ EnqRestoreDone(t)

\* _enqueue_message run by a thread that is alone on the channel, as one
\* step: the while loop of lines 177-197 from its first put_nowait to its
\* return.  ChannelSpec checks it against the steps above (EnqueueAgrees).
RECURSIVE EnqueueLoop(_, _, _, _, _)
EnqueueLoop(q, dropped, depth, m, attempts) ==
    IF Len(q) < maxsize
    THEN [queue |-> Append(q, m), dropped |-> dropped,
          depth |-> RecordDepth(depth, Append(q, m)), outcome |-> "enqueued"]
    ELSE LET k == DropIndex(q, IsState(m))
         IN  IF k # 0
             THEN EnqueueLoop(RemoveAt(q, k), dropped + 1,
                              RecordDepth(depth, RemoveAt(q, k)), m, attempts + 1)
             ELSE IF GiveUp(FALSE, attempts + 1)
             THEN [queue |-> q, dropped |-> dropped + 1,
                   depth |-> RecordDepth(depth, q), outcome |-> "discarded"]
             ELSE EnqueueLoop(q, dropped, RecordDepth(depth, q), m, attempts + 1)

EnqueueMessage(q, dropped, depth, m) == EnqueueLoop(q, dropped, depth, m, 0)

\* a worker's call of _enqueue_message(level, message)
WEnqueue(m) ==
    LET done == EnqueueMessage(queue, dropped_messages, max_queue_depth, m)
    IN  /\ queue' = done.queue
        /\ dropped_messages' = done.dropped
        /\ max_queue_depth' = done.depth
        /\ UNCHANGED maxsize

\* the consumer's poll, at any moment: get_nowait takes the oldest message
Consume ==
    /\ queue # <<>>
    /\ queue' = Tail(queue)
    /\ hist' = [hist EXCEPT !.alone = @ /\ enq[Producer].pc = "idle"]
    /\ UNCHANGED <<maxsize, dropped_messages, max_queue_depth, enq, published>>
    /\ UNCHANGED svcVars
    /\ UNCHANGED fileVars

\* ------------------------------------------------------------- idle service
\* history kept for the producer of ChannelSpec: the channel and the dropped
\* counter when it made its call, and whether the consumer has left the
\* channel alone since
HistIdle == [pre |-> <<>>, pre_dropped |-> 0, pre_depth |-> 0, alone |-> TRUE]

IdleCaller == [c \in Callers |-> "idle"]
PubIdle == [preserved_states |-> <<>>, evicted |-> FALSE, restore |-> <<>>]
\* result is state_payload["result"]; the other fields are history of the
\* run: how extract_files ended, the files it attempted, the calls of
\* _publish_state_update, the message of the last call and the times a state
\* message of the run was put on the channel
NoMessage == Msg("none", "", "")
WlocIdle == [result |-> "success", outcome |-> "none", files |-> 0,
             state_publishes |-> 0, terminal |-> NoMessage, delivered |-> 0]

SvcIdle ==
    /\ thread = 0
    /\ alive = {}
    /\ cancel_event = FALSE
    /\ cpc = IdleCaller
    /\ wpc = [r \in Runs |-> "none"]
    /\ wloc = [r \in Runs |-> WlocIdle]
    /\ pub = [r \in Runs |-> PubIdle]
    /\ summary = 0

\* ------------------------------------------------------ the folder, the run
\* constants.CHUNK_SIZE, and the floor of the retry (max(1024, ...), line 347)
CHUNK_SIZE == 8192
MinChunkSize == 1024

\* constants.SPECIFICATION_FILES, in order
SPECIFICATION_FILES == <<"README.md", "SPECIFICATIONS.md">>

SpecPaths == {SPECIFICATION_FILES[i] : i \in DOMAIN SPECIFICATION_FILES}

\* the other files of the folder
FileName == <<"a.py", "b.py", "c.py">>

TreeFiles == {FileName[i] : i \in 1..MaxTreeFiles}

Paths == SpecPaths \cup TreeFiles

\* os.path.splitext(file_path)[1]
Ext(p) == IF p \in SpecPaths THEN ".md" ELSE ".py"

\* What processing a file of the folder meets, the same at every attempt:
\*   absent       the file is not in the folder
\*   ok, empty    it is streamed to its end (empty: it has no content)
\*   noaccess     os.path.exists or os.access fails (lines 297-301)
\*   undecodable  read raises UnicodeDecodeError after the first chunk
\*   memory       read raises MemoryError after the first chunk, at any size
\*   tight        read raises MemoryError after the first chunk when asked
\*                for more than half of CHUNK_SIZE, and succeeds otherwise
Fates == {"ok", "empty", "noaccess", "undecodable", "memory", "tight"}

\* the fates that make an attempt fail
Faulty == {"noaccess", "undecodable", "memory", "tight"}

\* os.path.getsize: two chunks of the initial size, or nothing
FileSize(fate) == IF fate = "empty" THEN 0 ELSE 2 * CHUNK_SIZE

\* the pieces output_file.write appends
Header(p) == [kind |-> "header", path |-> p, from |-> 0, len |-> 0]
Chunk(p, from, len) == [kind |-> "chunk", path |-> p, from |-> from, len |-> len]
Trailer(p) == [kind |-> "trailer", path |-> p, from |-> 0, len |-> 0]

\* extraction_summary: the extension entries {count, total_size} and the
\* file entries {size, hash, extension}, kept apart; hash is the path whose
\* content was hashed
NoStat == [count |-> 0, total_size |-> 0, present |-> FALSE]
NoDetail == [size |-> 0, hash |-> "", extension |-> "", present |-> FALSE]
EmptySummary == [stats |-> [e \in {".md", ".py"} |-> NoStat],
                 details |-> [p \in Paths |-> NoDetail]]

NoMetrics == [present |-> FALSE, processed_files |-> 0, skipped_files |-> 0,
              total_files |-> 0, total_files_known |-> FALSE,
              max_queue_depth |-> 0, dropped_messages |-> 0]

\* locals of extract_files (processed_count, skipped_count, total_files, the
\* paths still to iterate), of process_specifications (spec_index,
\* skipped_specs), of process_file and _stream_file_contents (path, caller,
\* chunk_size, start_position, header_written, offset, result: how the call
\* ended), and history of the run: its number, the calls of cancel so far,
\* how it ended, per file the
\* calls of process_file, the error messages and the times it was counted
\* as skipped, the files whose process_file returned True, in order, the
\* output as the last call of process_file found it, and the place where
\* ExtractionCancelled was raised, and the calls of _stream_file_contents
\* made by the last call of process_file.  checked says that is_cancelled()
\* has answered false and the read it guards has not been made yet.  flagged
\* is history: the output, the file in flight and the files recorded when
\* the cancellation flag was set
NotFlagged == [set |-> FALSE, output |-> <<>>, path |-> "", recorded |-> {}]

XfIdle == [pc |-> "idle", run |-> 0, cancels |-> 0, outcome |-> "none",
           processed_count |-> 0, skipped_count |-> 0, total_files |-> 0,
           lazy |-> FALSE, pending |-> {}, spec_index |-> 1,
           path |-> "", caller |-> "", chunk_size |-> CHUNK_SIZE,
           start_position |-> 0, can_restore_output |-> FALSE,
           header_written |-> FALSE, offset |-> 0, result |-> "none",
           skipped_specs |-> 0,
           attempts |-> [p \in Paths |-> 0], errors |-> [p \in Paths |-> 0],
           skips |-> [p \in Paths |-> 0], returned |-> <<>>,
           entry_output |-> <<>>, raised_at |-> "none", streams |-> 0,
           checked |-> FALSE, flagged |-> NotFlagged]

\* no call of the scanner, of the normaliser or of start_extraction under way
CallIdle == [pc |-> "idle"]

\* ui.py 150-153: the window after construction: no extraction in progress,
\* no check_queue scheduled, no run started
GuiIdle == [pc |-> "mainloop", extraction_in_progress |-> FALSE,
            scheduled |-> 0, runs |-> 0]

NoCalls ==
    /\ scan = CallIdle
    /\ norm = CallIdle
    /\ req = CallIdle
    /\ gui = GuiIdle

\* no run of extract_files under way or done
NoRun ==
    /\ tree = [fate |-> [p \in Paths |-> "absent"], md_eligible |-> FALSE]
    /\ xf = XfIdle
    /\ output = <<>>
    /\ extraction_summary = EmptySummary
    /\ progress = <<>>
    /\ metrics = NoMetrics
    /\ ended = <<>>

\* a processor nobody runs: what Spec and ChannelSpec leave untouched
FileIdle ==
    /\ NoCalls
    /\ tree = [fate |-> [p \in Paths |-> "absent"], md_eligible |-> FALSE]
    /\ xf = XfIdle
    /\ output = <<>>
    /\ processed_files = {}
    /\ extraction_summary = EmptySummary
    /\ progress = <<>>
    /\ metrics = NoMetrics
    /\ ended = <<>>

\* ------------------------------------------------- ChannelSpec: one producer
\* A processor on a channel of any capacity and content, used by one thread
\* that calls _enqueue_message with any level, and a consumer that polls.
Prefilled(n) ==
    { s \in [1..n -> {"info", "error", "state"}] : TRUE }

InitialQueue(levels) ==
    [i \in DOMAIN levels |->
        Msg(levels[i], OldText[i], IF levels[i] = "state" THEN "pending" ELSE "")]

ChanInit ==
    /\ maxsize \in 1..MaxCapacity
    /\ \E n \in 0..MaxCapacity :
          /\ n <= maxsize
          /\ \E levels \in Prefilled(n) : queue = InitialQueue(levels)
    /\ dropped_messages = 0
    /\ max_queue_depth = 0
    /\ enq = [r \in Runs |-> EnqIdle]
    /\ published = 0
    /\ hist = HistIdle
    /\ SvcIdle
    /\ FileIdle

ChanPublish ==
    /\ enq[Producer].pc = "idle"
    /\ published < MaxPublishes
    /\ \E level \in Levels :
          enq' = [enq EXCEPT ![Producer] =
                     EnqCall(Msg(level, NewText[published + 1],
                                 IF level = "state" THEN "success" ELSE ""))]
    /\ published' = published + 1
    /\ hist' = [pre |-> queue, pre_dropped |-> dropped_messages,
                pre_depth |-> max_queue_depth, alone |-> TRUE]
    /\ UNCHANGED chanVars
    /\ UNCHANGED svcVars
    /\ UNCHANGED fileVars

ChanReturn ==
    /\ enq[Producer].pc = "done"
    /\ enq' = [enq EXCEPT ![Producer] = EnqIdle]
    /\ UNCHANGED <<published, hist>>
    /\ UNCHANGED chanVars
    /\ UNCHANGED svcVars
    /\ UNCHANGED fileVars

ChanNext ==
    \/ ChanPublish
    \/ EnqStep(Producer)
    \/ ChanReturn
    \/ Consume

ChannelSpec == ChanInit /\ [][ChanNext]_vars

\* ------------------------------------------------------ ExtractorService
\* is_running: self._thread is not None and self._thread.is_alive()
\* (IsRunningMut is the faulty variant with the is_alive test inverted)
IsRunningMut == thread # 0 /\ thread \notin alive

IsRunning == thread # 0 /\ thread \in alive

\* the caller is between two calls; "busy" is idle after a start_extraction
\* that raised RuntimeError
Idle(c) == cpc[c] \in {"idle", "busy"}

\* threading.Thread(...): the thread objects not in use, and the one created
FreeThreads == {r \in Runs : wpc[r] = "none"}

NewThread == CHOOSE r \in FreeThreads : \A u \in FreeThreads : r <= u

\* start_extraction, lines 164-184.  The whole body runs under self._lock,
\* which only the last statement of a worker also takes, so it is one step:
\* raise RuntimeError when a worker is running, else clear the cancellation
\* flag, create the worker thread, keep it in _thread and start it.  A call
\* that would make more than MaxThreads worker threads exist is not made.
\* (StartExtractionMut is the faulty variant that clears the flag before the
\* test.)
StartExtractionMut(c) ==
    /\ Idle(c)
    /\ IsRunning \/ FreeThreads # {}
    /\ cancel_event' = FALSE
    /\ IF IsRunning
       THEN /\ cpc' = [cpc EXCEPT ![c] = "busy"]
            /\ UNCHANGED <<thread, alive, wpc>>
       ELSE /\ thread' = NewThread
            /\ alive' = alive \cup {NewThread}
            /\ wpc' = [wpc EXCEPT ![NewThread] = "extract_begin"]
            /\ cpc' = [cpc EXCEPT ![c] = "idle"]
    /\ UNCHANGED <<wloc, pub, summary>>
    /\ UNCHANGED <<enq, published, hist, fileVars>>
    /\ UNCHANGED chanVars

StartExtraction(c) ==
    /\ Idle(c)
    /\ IsRunning \/ FreeThreads # {}
    /\ IF IsRunning
       THEN /\ cpc' = [cpc EXCEPT ![c] = "busy"]
            /\ UNCHANGED <<thread, alive, cancel_event, wpc>>
       ELSE /\ cancel_event' = FALSE
            /\ thread' = NewThread
            /\ alive' = alive \cup {NewThread}
            /\ wpc' = [wpc EXCEPT ![NewThread] = "extract_begin"]
            /\ cpc' = [cpc EXCEPT ![c] = "idle"]
    /\ UNCHANGED <<wloc, pub, summary>>
    /\ UNCHANGED <<enq, published, hist, fileVars>>
    /\ UNCHANGED chanVars

\* cancel, lines 194-195: return when no worker is running
CancelCheck(c) ==
    /\ Idle(c)
    /\ cpc' = [cpc EXCEPT ![c] = IF IsRunning THEN "cancel_isset" ELSE "idle"]
    /\ UNCHANGED <<thread, alive, cancel_event, wpc, wloc, pub, summary>>
    /\ UNCHANGED <<enq, published, hist, fileVars>>
    /\ UNCHANGED chanVars

\* line 197: if not self._cancel_event.is_set()
CancelIsSet(c) ==
    /\ cpc[c] = "cancel_isset"
    /\ cpc' = [cpc EXCEPT ![c] = IF cancel_event THEN "cancel_set" ELSE "cancel_put"]
    /\ UNCHANGED <<thread, alive, cancel_event, wpc, wloc, pub, summary>>
    /\ UNCHANGED <<enq, published, hist, fileVars>>
    /\ UNCHANGED chanVars

\* line 198: output_queue.put(...), the blocking put: it waits while the
\* queue is full
CancelPut(c) ==
    /\ cpc[c] = "cancel_put"
    /\ ~QFull
    /\ queue' = Append(queue, Msg("info", "Extraction cancellation requested", ""))
    /\ cpc' = [cpc EXCEPT ![c] = "cancel_set"]
    /\ UNCHANGED <<thread, alive, cancel_event, wpc, wloc, pub, summary>>
    /\ UNCHANGED <<maxsize, dropped_messages, max_queue_depth, enq, published, hist, fileVars>>

\* line 201: self._cancel_event.set(), and cancel returns
CancelSet(c) ==
    /\ cpc[c] = "cancel_set"
    /\ cancel_event' = TRUE
    /\ cpc' = [cpc EXCEPT ![c] = "idle"]
    /\ UNCHANGED <<thread, alive, wpc, wloc, pub, summary>>
    /\ UNCHANGED <<enq, published, hist, fileVars>>
    /\ UNCHANGED chanVars

CallerStep(c) ==
    \/ StartExtraction(c)
    \/ CancelCheck(c)
    \/ CancelIsSet(c)
    \/ CancelPut(c)
    \/ CancelSet(c)

\* ------------------------------------------- the worker: _run_extraction
\* positions of the worker inside FileProcessor.extract_files
ExtractPcs == {"extract_begin", "loop", "metrics"}

InExtractFiles(r) == wpc[r] \in ExtractPcs

\* extract_files, lines 589-593: the instrumentation of the run
WBegin(r) ==
    /\ wpc[r] = "extract_begin"
    /\ max_queue_depth' = Len(queue)
    /\ dropped_messages' = 0
    /\ wpc' = [wpc EXCEPT ![r] = "loop"]
    /\ UNCHANGED <<queue, maxsize, enq, published, hist, fileVars>>
    /\ UNCHANGED <<thread, alive, cancel_event, cpc, wloc, pub, summary>>

\* lines 690-694: any exception leaving the with block, ExtractionCancelled
\* included, is reported with _enqueue_message("error", ...) and raised again
WRaise(r, outcome) ==
    /\ wloc' = [wloc EXCEPT ![r].outcome = outcome]
    /\ WEnqueue(Msg("error", "Error during extraction", ""))
    /\ wpc' = [wpc EXCEPT ![r] = "handler"]
    /\ UNCHANGED summary

\* lines 210-211, 254-257, 508-509, 544-547: a cancellation point that sees
\* the flag set raises ExtractionCancelled
WCancelled(r) ==
    /\ wpc[r] = "loop"
    /\ cancel_event
    /\ WRaise(r, "cancelled")
    /\ UNCHANGED <<thread, alive, cancel_event, cpc, pub>>
    /\ UNCHANGED <<enq, published, hist, fileVars>>

\* lines 653-678, process_file returned True: the file is recorded (line
\* 379).  The warnings of process_file (lines 313, 370) are not modelled.
WFileProcessed(r) ==
    /\ wpc[r] = "loop"
    /\ ~cancel_event
    /\ wloc[r].files < MaxFiles
    /\ summary < MaxRecords
    /\ summary' = summary + 1
    /\ wloc' = [wloc EXCEPT ![r].files = @ + 1]
    /\ UNCHANGED <<thread, alive, cancel_event, cpc, wpc, pub>>
    /\ UNCHANGED <<enq, published, hist, fileVars>>
    /\ UNCHANGED chanVars

\* process_file, lines 392-405, returned False (or raised ExtractionSkipped,
\* lines 354-363): one error message, the file is skipped
WFileSkipped(r) ==
    /\ wpc[r] = "loop"
    /\ ~cancel_event
    /\ wloc[r].files < MaxFiles
    /\ wloc' = [wloc EXCEPT ![r].files = @ + 1]
    /\ WEnqueue(Msg("error", "Error processing file", ""))
    /\ UNCHANGED <<thread, alive, cancel_event, cpc, wpc, pub, summary>>
    /\ UNCHANGED <<enq, published, hist, fileVars>>

\* an exception that is no per-file condition (the output cannot be opened
\* or written, the walk fails)
WFailed(r) ==
    /\ wpc[r] = "loop"
    /\ WRaise(r, "raised")
    /\ UNCHANGED <<thread, alive, cancel_event, cpc, pub>>
    /\ UNCHANGED <<enq, published, hist, fileVars>>

\* lines 680-688: the loop is over, the completion message
WComplete(r) ==
    /\ wpc[r] = "loop"
    /\ ~cancel_event
    /\ WEnqueue(Msg("info", "Extraction complete", ""))
    /\ wpc' = [wpc EXCEPT ![r] = "metrics"]
    /\ UNCHANGED <<thread, alive, cancel_event, cpc, wloc, pub, summary>>
    /\ UNCHANGED <<enq, published, hist, fileVars>>

\* lines 695-756: _last_run_metrics is filled (714-729), then the metrics
\* message is enqueued (747-756); extract_files returns after it
WMetrics(r) ==
    /\ wpc[r] = "metrics"
    /\ WEnqueue(Msg("info", "Extraction metrics", ""))
    /\ wloc' = [wloc EXCEPT ![r].outcome = "returned"]
    /\ wpc' = [wpc EXCEPT ![r] = "publish"]
    /\ UNCHANGED <<thread, alive, cancel_event, cpc, pub, summary>>
    /\ UNCHANGED <<enq, published, hist, fileVars>>

\* _run_extraction, lines 216 and 229-237: the result the handlers give the
\* state payload for each way extract_files ends (HandlerResultMut is the
\* faulty variant that reports a cancellation as an error)
HandlerResultMut(outcome) ==
    IF outcome = "returned" THEN "success" ELSE "error"

HandlerResult(outcome) ==
    CASE outcome = "returned" -> "success"
      [] outcome = "cancelled" -> "cancelled"
      [] OTHER -> "error"

\* lines 232 and 235: the message the handler puts, with a blocking put
HandlerMessage(outcome) ==
    IF outcome = "cancelled"
    THEN Msg("info", "Extraction cancelled", "")
    ELSE Msg("error", "Extraction error", "")

\* lines 229-237: the except clauses; output_queue.put waits while the queue
\* is full
WHandler(r) ==
    /\ wpc[r] = "handler"
    /\ ~QFull
    /\ queue' = Append(queue, HandlerMessage(wloc[r].outcome))
    /\ wloc' = [wloc EXCEPT ![r].result = HandlerResult(wloc[r].outcome)]
    /\ wpc' = [wpc EXCEPT ![r] = "publish"]
    /\ UNCHANGED <<thread, alive, cancel_event, cpc, pub, summary>>
    /\ UNCHANGED <<maxsize, dropped_messages, max_queue_depth, enq, published, hist, fileVars>>

\* the terminal message ("state", state_payload); the message key holds the
\* failure text of an error
StateMessage(r) ==
    Msg("state", IF wloc[r].result = "error" THEN "failure text" ELSE "",
        wloc[r].result)

\* the keys of state_payload in a state message: status and result, and
\* message when the run failed (lines 216, 230, 234-235)
PayloadKeys(m) ==
    {"status", "result"} \cup (IF m.result = "error" THEN {"message"} ELSE {})

\* _publish_state_update, lines 246-251: put_nowait(message); return unless Full
PubTry(r) ==
    /\ wpc[r] = "publish"
    /\ IF ~QFull
       THEN /\ queue' = Append(queue, StateMessage(r))
            /\ wloc' = [wloc EXCEPT ![r].state_publishes = @ + 1,
                                    ![r].terminal = StateMessage(r),
                                    ![r].delivered = @ + 1]
            /\ wpc' = [wpc EXCEPT ![r] = "finally"]
            /\ UNCHANGED pub
       ELSE /\ wloc' = [wloc EXCEPT ![r].state_publishes = @ + 1,
                                    ![r].terminal = StateMessage(r)]
            /\ wpc' = [wpc EXCEPT ![r] = "pub_drain"]
            /\ pub' = [pub EXCEPT ![r] = PubIdle]
            /\ UNCHANGED queue
    /\ UNCHANGED <<thread, alive, cancel_event, cpc, summary>>
    /\ UNCHANGED <<maxsize, dropped_messages, max_queue_depth, enq, published, hist, fileVars>>

\* lines 256-269: one get_nowait of the eviction loop.  A state message is
\* kept aside and the loop goes on; the first other message is evicted; on
\* Empty the oldest state message kept aside, if any, is evicted.
PubGet(r) ==
    /\ wpc[r] = "pub_drain"
    /\ IF queue = <<>>
       THEN /\ pub' = [pub EXCEPT ![r].evicted = (pub[r].preserved_states # <<>>),
                                  ![r].restore = IF pub[r].preserved_states # <<>>
                                                 THEN Tail(pub[r].preserved_states)
                                                 ELSE <<>>]
            /\ wpc' = [wpc EXCEPT ![r] = "pub_restore"]
            /\ UNCHANGED queue
       ELSE /\ queue' = Tail(queue)
            /\ IF IsState(Head(queue))
               THEN /\ pub' = [pub EXCEPT ![r].preserved_states = Append(@, Head(queue))]
                    /\ UNCHANGED wpc
               ELSE /\ pub' = [pub EXCEPT ![r].evicted = TRUE,
                                          ![r].restore = pub[r].preserved_states]
                    /\ wpc' = [wpc EXCEPT ![r] = "pub_restore"]
    /\ UNCHANGED <<thread, alive, cancel_event, cpc, wloc, summary>>
    /\ UNCHANGED <<maxsize, dropped_messages, max_queue_depth, enq, published, hist, fileVars>>

\* lines 270-276: put_nowait of the next state message kept aside; on Full it
\* is logged and lost
PubRestore(r) ==
    /\ wpc[r] = "pub_restore"
    /\ pub[r].restore # <<>>
    /\ IF ~QFull
       THEN /\ queue' = Append(queue, Head(pub[r].restore))
       ELSE UNCHANGED queue
    /\ pub' = [pub EXCEPT ![r].restore = Tail(@)]
    /\ UNCHANGED <<thread, alive, cancel_event, cpc, wpc, wloc, summary>>
    /\ UNCHANGED <<maxsize, dropped_messages, max_queue_depth, enq, published, hist, fileVars>>

\* lines 277-285: nothing evicted: the state update is dropped; else
\* put_nowait(message), dropped on Full
PubFinal(r) ==
    /\ wpc[r] = "pub_restore"
    /\ pub[r].restore = <<>>
    /\ IF pub[r].evicted /\ ~QFull
       THEN /\ queue' = Append(queue, StateMessage(r))
            /\ wloc' = [wloc EXCEPT ![r].delivered = @ + 1]
       ELSE UNCHANGED <<queue, wloc>>
    /\ pub' = [pub EXCEPT ![r] = PubIdle]
    /\ wpc' = [wpc EXCEPT ![r] = "finally"]
    /\ UNCHANGED <<thread, alive, cancel_event, cpc, summary>>
    /\ UNCHANGED <<maxsize, dropped_messages, max_queue_depth, enq, published, hist, fileVars>>

\* lines 240-241: with self._lock: self._thread = None, the last statement
\* of the thread, which ends with it; the history of the run is dropped
WClear(r) ==
    /\ wpc[r] = "finally"
    /\ thread' = 0
    /\ alive' = alive \ {r}
    /\ wpc' = [wpc EXCEPT ![r] = "none"]
    /\ wloc' = [wloc EXCEPT ![r] = WlocIdle]
    /\ UNCHANGED <<cancel_event, cpc, pub, summary>>
    /\ UNCHANGED <<enq, published, hist, fileVars>>
    /\ UNCHANGED chanVars

WorkerStep(r) ==
    \/ WBegin(r)
    \/ WCancelled(r)
    \/ WFileProcessed(r)
    \/ WFileSkipped(r)
    \/ WFailed(r)
    \/ WComplete(r)
    \/ WMetrics(r)
    \/ WHandler(r)
    \/ PubTry(r)
    \/ PubGet(r)
    \/ PubRestore(r)
    \/ PubFinal(r)
    \/ WClear(r)

\* ---------------------------------------------------------- Spec: a service
\* A service on an empty channel of any capacity, callers that start and
\* cancel at any moment, the workers they start, and a consumer that polls.
Init ==
    /\ maxsize \in 1..MaxCapacity
    /\ queue = <<>>
    /\ dropped_messages = 0
    /\ max_queue_depth = 0
    /\ enq = [r \in Runs |-> EnqIdle]
    /\ published = 0
    /\ hist = HistIdle
    /\ SvcIdle
    /\ FileIdle

NextNoConsumer ==
    \/ \E c \in Callers : CallerStep(c)
    \/ \E r \in Runs : WorkerStep(r)

Next ==
    \/ NextNoConsumer
    \/ Consume

Spec == Init /\ [][Next]_vars

\* the same service when nothing ever polls the channel
NoConsumerSpec == Init /\ [][NextNoConsumer]_vars

\* ------------------------------------------- RunSpec: runs one after the other
\* ui.STATUS_QUEUE_MAX_SIZE, the capacity the window gives the channel
STATUS_QUEUE_MAX_SIZE == 256

\* what a run of extract_files never touches
runFixed == <<enq, published, hist, thread, alive, cpc, wpc, wloc, pub, summary, tree,
              callVars>>

\* output_file.seek(start_position); output_file.truncate()
RestoreMut(out, start_position) == out

Restore(out, start_position) == SubSeq(out, 1, start_position)

\* the header, written before the first chunk or after an empty read
HeaderIfNeededMut(header_written, p) == <<Header(p)>>

HeaderIfNeeded(header_written, p) == IF header_written THEN <<>> ELSE <<Header(p)>>

\* next_chunk_size = max(1024, chunk_size // 2)
NextChunkSizeMut(chunk_size) == chunk_size \div 2

NextChunkSize(chunk_size) ==
    IF chunk_size \div 2 > MinChunkSize THEN chunk_size \div 2 ELSE MinChunkSize

\* what source.read(chunk_size) does at this offset of a file of this fate
ReadOutcome(fate, offset, chunk_size) ==
    IF fate = "undecodable" /\ offset > 0 THEN "undecodable"
    ELSE IF fate = "memory" /\ offset > 0 THEN "memory"
    ELSE IF fate = "tight" /\ offset > 0 /\ chunk_size > CHUNK_SIZE \div 2 THEN "memory"
    ELSE IF offset < FileSize(fate) THEN "chunk"
    ELSE "eof"

\* (faulty: the walk yields the files already processed again)
EligibleMut ==
    {p \in Paths : /\ tree.fate[p] # "absent"
                   /\ (p \in SpecPaths => tree.md_eligible)}

\* what the walk yields: the files present that were not processed before
\* and pass the extension test of the request
Eligible ==
    {p \in Paths : /\ tree.fate[p] # "absent"
                   /\ p \notin processed_files
                   /\ (p \in SpecPaths => tree.md_eligible)}

\* build_summary: the extension entries, their counts added up, and the
\* file entries
BuildSummary(es) ==
    [total_files |-> es.stats[".md"].count + es.stats[".py"].count,
     stats |-> es.stats,
     details |-> es.details]

\* a run as it completed: for comparing a run with the one before
EndRecord(x, outcome, out, es, prog) ==
    [outcome |-> outcome, output |-> out, stats |-> es.stats,
     details |-> es.details, processed_count |-> x.processed_count,
     skipped_count |-> x.skipped_count, total_files |-> x.total_files,
     lazy |-> x.lazy, progress |-> prog, skips |-> x.skips,
     errors |-> x.errors, attempts |-> x.attempts]

\* process_file(file_path, ...) is called: its first assignments (291-294)
XCallFile(x, p, caller) ==
    [x EXCEPT !.pc = "open", !.path = p, !.caller = caller,
              !.can_restore_output = FALSE, !.start_position = 0,
              !.result = "none", !.attempts[p] = @ + 1,
              !.entry_output = output, !.streams = 0]

\* ExtractionCancelled leaves extract_files through its except Exception
\* (690-694): the error message, the output file closed as out, and the run
\* is over
XRaiseCancelled(out, where) ==
    /\ WEnqueue(Msg("error", "Error during extraction", ""))
    /\ output' = out
    /\ xf' = [xf EXCEPT !.pc = "idle", !.outcome = "cancelled",
                        !.raised_at = where]
    /\ UNCHANGED <<cancel_event, processed_files, extraction_summary, progress,
                   metrics, ended>>
    /\ UNCHANGED runFixed

\* ExtractorService.start_extraction (clears the flag, starts the worker)
\* and the first lines of extract_files: the instrumentation of the run and
\* the output file opened for writing
XStart ==
    /\ xf.pc = "idle"
    /\ xf.run < MaxSuccessive
    /\ cancel_event' = FALSE
    /\ max_queue_depth' = Len(queue)
    /\ dropped_messages' = 0
    /\ metrics' = NoMetrics
    /\ output' = <<>>
    /\ progress' = <<>>
    /\ xf' = [XfIdle EXCEPT !.pc = "specs", !.run = xf.run + 1,
                            !.cancels = xf.cancels]
    /\ UNCHANGED <<queue, maxsize, processed_files, extraction_summary, ended>>
    /\ UNCHANGED runFixed

\* ExtractorService.reset_state, which the window calls before a run
\* (ui.prepare_extraction) and start_extraction does not
XReset ==
    /\ xf.pc = "idle"
    /\ extraction_summary' = EmptySummary
    /\ processed_files' = {}
    /\ dropped_messages' = 0
    /\ max_queue_depth' = 0
    /\ metrics' = NoMetrics
    /\ UNCHANGED <<queue, maxsize, cancel_event, xf, output, progress, ended>>
    /\ UNCHANGED runFixed

\* the positions inside process_file
ProcessFilePcs == {"open", "stream", "record_count", "record_size", "record_details"}

\* is_cancelled and is_cancelled() of _stream_file_contents (254)
IsCancelledMut(flag) == FALSE

IsCancelled(flag) == flag

\* ExtractorService.cancel while the run is on: the flag and the notice
XCancel ==
    /\ xf.pc # "idle"
    /\ ~cancel_event
    /\ xf.cancels < MaxCancels
    /\ cancel_event' = TRUE
    /\ xf' = [xf EXCEPT !.cancels = @ + 1,
                        !.flagged = [set |-> TRUE, output |-> output,
                                     path |-> IF xf.pc \in ProcessFilePcs THEN xf.path
                                              ELSE "",
                                     recorded |-> {p \in Paths :
                                                    extraction_summary.details[p].present}]]
    /\ queue' = Append(queue, Msg("info", "Extraction cancellation requested", ""))
    /\ UNCHANGED <<maxsize, dropped_messages, max_queue_depth>>
    /\ UNCHANGED <<output, processed_files, extraction_summary, progress,
                   metrics, ended>>
    /\ UNCHANGED runFixed

\* --- process_specifications
\* the cancellation check at the head of the loop (210-211)
XSpecsCancelled ==
    /\ xf.pc = "specs"
    /\ xf.spec_index <= Len(SPECIFICATION_FILES)
    /\ cancel_event
    /\ XRaiseCancelled(output, "specs")

\* a specification file that is not in the folder (214)
XSpecAbsent ==
    /\ xf.pc = "specs"
    /\ xf.spec_index <= Len(SPECIFICATION_FILES)
    /\ ~cancel_event
    /\ tree.fate[SPECIFICATION_FILES[xf.spec_index]] = "absent"
    /\ xf' = [xf EXCEPT !.spec_index = @ + 1]
    /\ UNCHANGED chanVars
    /\ UNCHANGED <<cancel_event, output, processed_files, extraction_summary,
                   progress, metrics, ended>>
    /\ UNCHANGED runFixed

\* a specification file that is there: process_file is called (217-221)
XSpecCall ==
    /\ xf.pc = "specs"
    /\ xf.spec_index <= Len(SPECIFICATION_FILES)
    /\ ~cancel_event
    /\ tree.fate[SPECIFICATION_FILES[xf.spec_index]] # "absent"
    /\ xf' = XCallFile(xf, SPECIFICATION_FILES[xf.spec_index], "specs")
    /\ UNCHANGED chanVars
    /\ UNCHANGED <<cancel_event, output, processed_files, extraction_summary,
                   progress, metrics, ended>>
    /\ UNCHANGED runFixed

\* process_file returned True (222-223)
XSpecProcessed ==
    /\ xf.pc = "returned"
    /\ xf.caller = "specs"
    /\ xf.result = "processed"
    /\ processed_files' = processed_files \cup {xf.path}
    /\ xf' = [xf EXCEPT !.pc = "specs", !.spec_index = @ + 1]
    /\ UNCHANGED chanVars
    /\ UNCHANGED <<cancel_event, output, extraction_summary, progress, metrics,
                   ended>>
    /\ UNCHANGED runFixed

\* process_file returned False (224-225)
XSpecFailed ==
    /\ xf.pc = "returned"
    /\ xf.caller = "specs"
    /\ xf.result = "failed"
    /\ xf' = [xf EXCEPT !.pc = "specs", !.spec_index = @ + 1,
                        !.skipped_specs = @ + 1, !.skips[xf.path] = @ + 1]
    /\ UNCHANGED chanVars
    /\ UNCHANGED <<cancel_event, output, processed_files, extraction_summary,
                   progress, metrics, ended>>
    /\ UNCHANGED runFixed

\* process_file raised ExtractionSkipped: except Exception (228-233)
XSpecSkipped ==
    /\ xf.pc = "returned"
    /\ xf.caller = "specs"
    /\ xf.result = "skipped"
    /\ WEnqueue(Msg("error", "Error processing specification file", ""))
    /\ xf' = [xf EXCEPT !.pc = "specs", !.spec_index = @ + 1,
                        !.skipped_specs = @ + 1, !.skips[xf.path] = @ + 1,
                        !.errors[xf.path] = @ + 1]
    /\ UNCHANGED <<cancel_event, output, processed_files, extraction_summary,
                   progress, metrics, ended>>
    /\ UNCHANGED runFixed

\* return skipped_specs (234), added to skipped_count (603-608)
XSpecsDone ==
    /\ xf.pc = "specs"
    /\ xf.spec_index > Len(SPECIFICATION_FILES)
    /\ xf' = [xf EXCEPT !.pc = "scan", !.skipped_count = @ + xf.skipped_specs]
    /\ UNCHANGED chanVars
    /\ UNCHANGED <<cancel_event, output, processed_files, extraction_summary,
                   progress, metrics, ended>>
    /\ UNCHANGED runFixed

\* --- process_file
\* the file cannot be read (297-301): except Exception (399-405)
XOpenFails ==
    /\ xf.pc = "open"
    /\ tree.fate[xf.path] = "noaccess"
    /\ WEnqueue(Msg("error", "Error processing file", ""))
    /\ output' = IF xf.can_restore_output THEN Restore(output, xf.start_position)
                 ELSE output
    /\ xf' = [xf EXCEPT !.pc = "returned", !.result = "failed",
                        !.errors[xf.path] = @ + 1]
    /\ UNCHANGED <<cancel_event, processed_files, extraction_summary, progress,
                   metrics, ended>>
    /\ UNCHANGED runFixed

\* the file can be read: the position to come back to, the first chunk size
\* (325-330) and the locals of _stream_file_contents (249-250)
XOpenOk ==
    /\ xf.pc = "open"
    /\ tree.fate[xf.path] # "noaccess"
    /\ xf' = [xf EXCEPT !.pc = "stream", !.can_restore_output = TRUE,
                        !.start_position = Len(output), !.chunk_size = CHUNK_SIZE,
                        !.header_written = FALSE, !.offset = 0, !.streams = 1]
    /\ UNCHANGED chanVars
    /\ UNCHANGED <<cancel_event, output, processed_files, extraction_summary,
                   progress, metrics, ended>>
    /\ UNCHANGED runFixed

\* --- _stream_file_contents, one turn of its loop per step
\* the flag is seen (254-257): except ExtractionCancelled of process_file
\* (382-386) restores the output, and the exception goes on
XStreamCancelled ==
    /\ xf.pc = "stream"
    /\ ~xf.checked
    /\ IsCancelled(cancel_event)
    /\ XRaiseCancelled(IF xf.can_restore_output
                       THEN Restore(output, xf.start_position) ELSE output,
                       "stream")

\* lines 254-257 with is_cancelled() false: the read comes next
XStreamCheck ==
    /\ xf.pc = "stream"
    /\ ~xf.checked
    /\ ~IsCancelled(cancel_event)
    /\ xf' = [xf EXCEPT !.checked = TRUE]
    /\ UNCHANGED chanVars
    /\ UNCHANGED <<cancel_event, output, processed_files, extraction_summary,
                   progress, metrics, ended>>
    /\ UNCHANGED runFixed

\* a chunk is read and written, after the header if it is the first
XStreamChunk ==
    /\ xf.pc = "stream"
    /\ xf.checked
    /\ ReadOutcome(tree.fate[xf.path], xf.offset, xf.chunk_size) = "chunk"
    /\ LET left == FileSize(tree.fate[xf.path]) - xf.offset
           n == IF left < xf.chunk_size THEN left ELSE xf.chunk_size
       IN  /\ output' = output \o HeaderIfNeeded(xf.header_written, xf.path)
                               \o <<Chunk(xf.path, xf.offset, n)>>
           /\ xf' = [xf EXCEPT !.header_written = TRUE, !.offset = @ + n,
                               !.checked = FALSE]
    /\ UNCHANGED chanVars
    /\ UNCHANGED <<cancel_event, processed_files, extraction_summary, progress,
                   metrics, ended>>
    /\ UNCHANGED runFixed

\* the read returns nothing: the header if none was written, the end of the
\* record, the hash (261-275); processed_successfully = True
XStreamEnd ==
    /\ xf.pc = "stream"
    /\ xf.checked
    /\ ReadOutcome(tree.fate[xf.path], xf.offset, xf.chunk_size) = "eof"
    /\ output' = output \o HeaderIfNeeded(xf.header_written, xf.path)
                        \o <<Trailer(xf.path)>>
    /\ xf' = [xf EXCEPT !.pc = "record_count", !.header_written = TRUE,
                        !.checked = FALSE]
    /\ UNCHANGED chanVars
    /\ UNCHANGED <<cancel_event, processed_files, extraction_summary, progress,
                   metrics, ended>>
    /\ UNCHANGED runFixed

\* the read raises UnicodeDecodeError (392-398)
XStreamUndecodable ==
    /\ xf.pc = "stream"
    /\ xf.checked
    /\ ReadOutcome(tree.fate[xf.path], xf.offset, xf.chunk_size) = "undecodable"
    /\ output' = IF xf.can_restore_output THEN Restore(output, xf.start_position)
                 ELSE output
    /\ WEnqueue(Msg("error", "Cannot decode file", ""))
    /\ xf' = [xf EXCEPT !.pc = "returned", !.result = "failed",
                        !.errors[xf.path] = @ + 1, !.checked = FALSE]
    /\ UNCHANGED <<cancel_event, processed_files, extraction_summary, progress,
                   metrics, ended>>
    /\ UNCHANGED runFixed

\* the read raises MemoryError and a smaller chunk size is left (341-374)
XStreamMemoryRetry ==
    /\ xf.pc = "stream"
    /\ xf.checked
    /\ ReadOutcome(tree.fate[xf.path], xf.offset, xf.chunk_size) = "memory"
    /\ NextChunkSize(xf.chunk_size) # xf.chunk_size
    /\ output' = IF xf.can_restore_output THEN Restore(output, xf.start_position)
                 ELSE output
    /\ WEnqueue(Msg("warning", "Memory pressure detected", ""))
    /\ xf' = [xf EXCEPT !.chunk_size = NextChunkSize(@),
                        !.header_written = FALSE, !.offset = 0,
                        !.streams = @ + 1, !.checked = FALSE]
    /\ UNCHANGED <<cancel_event, processed_files, extraction_summary, progress,
                   metrics, ended>>
    /\ UNCHANGED runFixed

\* the read raises MemoryError at the smallest chunk size (348-362):
\* ExtractionSkipped, through except ExtractionSkipped (387-391)
XStreamMemorySkip ==
    /\ xf.pc = "stream"
    /\ xf.checked
    /\ ReadOutcome(tree.fate[xf.path], xf.offset, xf.chunk_size) = "memory"
    /\ NextChunkSize(xf.chunk_size) = xf.chunk_size
    /\ output' = IF xf.can_restore_output THEN Restore(output, xf.start_position)
                 ELSE output
    /\ WEnqueue(Msg("error", "Skipped file due to repeated memory pressure", ""))
    /\ xf' = [xf EXCEPT !.pc = "returned", !.result = "skipped",
                        !.errors[xf.path] = @ + 1, !.checked = FALSE]
    /\ UNCHANGED <<cancel_event, processed_files, extraction_summary, progress,
                   metrics, ended>>
    /\ UNCHANGED runFixed

\* --- _update_extraction_summary, one assignment per step
\* the extension entry, created if missing, and its count (419-422)
XRecordCount ==
    /\ xf.pc = "record_count"
    /\ extraction_summary' =
           [extraction_summary EXCEPT !.stats[Ext(xf.path)] =
                [@ EXCEPT !.count = @ + 1, !.present = TRUE]]
    /\ xf' = [xf EXCEPT !.pc = "record_size"]
    /\ UNCHANGED chanVars
    /\ UNCHANGED <<cancel_event, output, processed_files, progress, metrics,
                   ended>>
    /\ UNCHANGED runFixed

\* its total_size (423)
XRecordSize ==
    /\ xf.pc = "record_size"
    /\ extraction_summary' =
           [extraction_summary EXCEPT !.stats[Ext(xf.path)].total_size =
                @ + FileSize(tree.fate[xf.path])]
    /\ xf' = [xf EXCEPT !.pc = "record_details"]
    /\ UNCHANGED chanVars
    /\ UNCHANGED <<cancel_event, output, processed_files, progress, metrics,
                   ended>>
    /\ UNCHANGED runFixed

\* the file entry (425-430), and process_file returns True
XRecordDetails ==
    /\ xf.pc = "record_details"
    /\ extraction_summary' =
           [extraction_summary EXCEPT !.details[xf.path] =
                [size |-> FileSize(tree.fate[xf.path]), hash |-> xf.path,
                 extension |-> Ext(xf.path), present |-> TRUE]]
    /\ xf' = [xf EXCEPT !.pc = "returned", !.result = "processed",
                        !.returned = Append(@, xf.path)]
    /\ UNCHANGED chanVars
    /\ UNCHANGED <<cancel_event, output, processed_files, progress, metrics,
                   ended>>
    /\ UNCHANGED runFixed

\* --- extract_files: the scan
\* the flag is seen by the walk (508-509, 544-547)
XScanCancelled ==
    /\ xf.pc = "scan"
    /\ cancel_event
    /\ XRaiseCancelled(output, "scan")

\* list(...) of the eligible paths, their number, the first callback
\* (614-625, 647-651)
XScanEager ==
    /\ xf.pc = "scan"
    /\ ~cancel_event
    /\ xf' = [xf EXCEPT !.pc = "loop", !.pending = Eligible,
                        !.total_files = Cardinality(Eligible), !.lazy = FALSE]
    /\ progress' = Append(progress, <<0, Cardinality(Eligible)>>)
    /\ UNCHANGED chanVars
    /\ UNCHANGED <<cancel_event, output, processed_files, extraction_summary,
                   metrics, ended>>
    /\ UNCHANGED runFixed

\* list(...) raises MemoryError: the warning, total_files = -1 and the
\* paths taken from the walk as they come (626-645, 650-651)
XScanScarce ==
    /\ xf.pc = "scan"
    /\ ~cancel_event
    /\ WEnqueue(Msg("warning", "Large directory detected", ""))
    /\ xf' = [xf EXCEPT !.pc = "loop", !.pending = Eligible,
                        !.total_files = -1, !.lazy = TRUE]
    /\ progress' = Append(progress, <<0, -1>>)
    /\ UNCHANGED <<cancel_event, output, processed_files, extraction_summary,
                   metrics, ended>>
    /\ UNCHANGED runFixed

\* --- extract_files: the loop over the paths
\* the walk, asked for the next path, sees the flag (544-547)
XLoopCancelled ==
    /\ xf.pc = "loop"
    /\ xf.lazy
    /\ cancel_event
    /\ xf.pending # {}
    /\ XRaiseCancelled(output, "loop")

\* the next path, in the order of the walk, and process_file is called
XLoopCall ==
    /\ xf.pc = "loop"
    /\ ~(xf.lazy /\ cancel_event)
    /\ \E p \in xf.pending :
           xf' = XCallFile([xf EXCEPT !.pending = @ \ {p}], p, "loop")
    /\ UNCHANGED chanVars
    /\ UNCHANGED <<cancel_event, output, processed_files, extraction_summary,
                   progress, metrics, ended>>
    /\ UNCHANGED runFixed

\* process_file raised ExtractionSkipped (660-667)
XLoopSkipped ==
    /\ xf.pc = "returned"
    /\ xf.caller = "loop"
    /\ xf.result = "skipped"
    /\ xf' = [xf EXCEPT !.pc = "loop", !.skipped_count = @ + 1,
                        !.skips[xf.path] = @ + 1]
    /\ progress' = Append(progress, <<xf.processed_count + xf.skipped_count + 1,
                                      xf.total_files>>)
    /\ UNCHANGED chanVars
    /\ UNCHANGED <<cancel_event, output, processed_files, extraction_summary,
                   metrics, ended>>
    /\ UNCHANGED runFixed

\* process_file returned False (668-674)
XLoopFailed ==
    /\ xf.pc = "returned"
    /\ xf.caller = "loop"
    /\ xf.result = "failed"
    /\ xf' = [xf EXCEPT !.pc = "loop", !.skipped_count = @ + 1,
                        !.skips[xf.path] = @ + 1]
    /\ progress' = Append(progress, <<xf.processed_count + xf.skipped_count + 1,
                                      xf.total_files>>)
    /\ UNCHANGED chanVars
    /\ UNCHANGED <<cancel_event, output, processed_files, extraction_summary,
                   metrics, ended>>
    /\ UNCHANGED runFixed

\* process_file returned True (675-678)
XLoopProcessed ==
    /\ xf.pc = "returned"
    /\ xf.caller = "loop"
    /\ xf.result = "processed"
    /\ processed_files' = processed_files \cup {xf.path}
    /\ xf' = [xf EXCEPT !.pc = "loop", !.processed_count = @ + 1]
    /\ progress' = Append(progress, <<xf.processed_count + 1, xf.total_files>>)
    /\ UNCHANGED chanVars
    /\ UNCHANGED <<cancel_event, output, extraction_summary, metrics, ended>>
    /\ UNCHANGED runFixed

\* no path is left: the completion message (680-688)
XLoopDone ==
    /\ xf.pc = "loop"
    /\ xf.pending = {}
    /\ WEnqueue(Msg("info", IF xf.skipped_count # 0
                            THEN "Extraction complete, some skipped"
                            ELSE "Extraction complete", ""))
    /\ xf' = [xf EXCEPT !.pc = "metrics"]
    /\ UNCHANGED <<cancel_event, output, processed_files, extraction_summary,
                   progress, metrics, ended>>
    /\ UNCHANGED runFixed

\* the else branch (695-756): the last callback of a run whose total was
\* not known, the metrics of the run and their message; the run is over
XMetrics ==
    /\ xf.pc = "metrics"
    /\ LET attempts == xf.processed_count + xf.skipped_count
           known == xf.total_files >= 0
           prog == IF ~known /\ attempts # 0
                   THEN Append(progress, <<attempts, attempts>>) ELSE progress
       IN  /\ progress' = prog
           /\ metrics' = [present |-> TRUE,
                          processed_files |-> xf.processed_count,
                          skipped_files |-> xf.skipped_count,
                          total_files |-> IF known THEN xf.total_files ELSE attempts,
                          total_files_known |-> known,
                          max_queue_depth |-> max_queue_depth,
                          dropped_messages |-> dropped_messages]
           /\ ended' = Append(ended, EndRecord(xf, "success", output,
                                               extraction_summary, prog))
    /\ WEnqueue(Msg("info", "Extraction metrics", ""))
    /\ xf' = [xf EXCEPT !.pc = "idle", !.outcome = "success"]
    /\ UNCHANGED <<cancel_event, output, processed_files, extraction_summary>>
    /\ UNCHANGED runFixed

\* A processor on the channel of the window, a folder of any content, and
\* runs started one after the other, with or without a reset between them;
\* the caller cancels at any moment.
RunInit ==
    /\ maxsize = STATUS_QUEUE_MAX_SIZE
    /\ queue = <<>>
    /\ dropped_messages = 0
    /\ max_queue_depth = 0
    /\ enq = [r \in Runs |-> EnqIdle]
    /\ published = 0
    /\ hist = HistIdle
    /\ SvcIdle
    /\ NoCalls
    /\ tree \in [fate : [Paths -> Fates \cup {"absent"}], md_eligible : BOOLEAN]
    /\ \A p \in TreeFiles : tree.fate[p] # "absent"
    /\ Cardinality({p \in Paths : tree.fate[p] \in Faulty}) <= MaxFaulty
    /\ xf = XfIdle
    /\ output = <<>>
    /\ processed_files = {}
    /\ extraction_summary = EmptySummary
    /\ progress = <<>>
    /\ metrics = NoMetrics
    /\ ended = <<>>

\* the steps of a run once it is started, and the caller's cancel
RunSteps ==
    \/ XCancel
    \/ XSpecsCancelled
    \/ XSpecAbsent
    \/ XSpecCall
    \/ XSpecProcessed
    \/ XSpecFailed
    \/ XSpecSkipped
    \/ XSpecsDone
    \/ XOpenFails
    \/ XOpenOk
    \/ XStreamCancelled
    \/ XStreamCheck
    \/ XStreamChunk
    \/ XStreamEnd
    \/ XStreamUndecodable
    \/ XStreamMemoryRetry
    \/ XStreamMemorySkip
    \/ XRecordCount
    \/ XRecordSize
    \/ XRecordDetails
    \/ XScanCancelled
    \/ XScanEager
    \/ XScanScarce
    \/ XLoopCancelled
    \/ XLoopCall
    \/ XLoopSkipped
    \/ XLoopFailed
    \/ XLoopProcessed
    \/ XLoopDone
    \/ XMetrics

RunNext ==
    \/ XStart
    \/ XReset
    \/ RunSteps

RunSpec == RunInit /\ [][RunNext]_vars

\* the first run of a new processor
XFirstStart ==
    /\ xf.run = 0
    /\ XStart

FirstRunNext ==
    \/ XFirstStart
    \/ RunSteps

\* the same processor and folder, and one run only
FirstRunSpec == RunInit /\ [][FirstRunNext]_vars

\* ------------------------------------------------------ claims on the channel
\* A call of _enqueue_message that has returned with no other thread having
\* touched the channel since it was made
ReturnedAlone == enq[Producer].pc = "done" /\ hist.alone

PreFull == Len(hist.pre) = maxsize

PreAllState == \A i \in 1..Len(hist.pre) : hist.pre[i].level = "state"

\* the call as one step (EnqueueMessage) ends as the call made of single
\* queue operations does
EnqueueAgrees ==
    ReturnedAlone =>
        LET done == EnqueueMessage(hist.pre, hist.pre_dropped, hist.pre_depth,
                                   enq[Producer].msg)
        IN  /\ queue = done.queue
            /\ dropped_messages = done.dropped
            /\ max_queue_depth = done.depth
            /\ enq[Producer].outcome = done.outcome

C8_NonStateDiscardedOnStateOnly ==
    (ReturnedAlone /\ PreFull /\ PreAllState /\ enq[Producer].msg.level # "state") =>
        /\ enq[Producer].outcome = "discarded"
        /\ queue = hist.pre
        /\ dropped_messages = hist.pre_dropped + 1

C8_Witness ==
    /\ ReturnedAlone /\ PreFull /\ PreAllState
    /\ enq[Producer].msg.level # "state"
    /\ Len(hist.pre) >= 2
    /\ enq[Producer].outcome = "discarded"

\* C9: a publish whose level is not "state" removes no state message: the
\* state messages of the channel after the call are those before it, in the
\* same order.
C9_NonStateNeverRemovesState ==
    (ReturnedAlone /\ enq[Producer].msg.level # "state") =>
        StatesOf(queue) = StatesOf(hist.pre)

\* the publish evicted an entry of a full channel that holds a state message
C9_Witness ==
    /\ ReturnedAlone /\ PreFull
    /\ enq[Producer].msg.level # "state"
    /\ StatesOf(hist.pre) # <<>>
    /\ enq[Producer].outcome = "enqueued"
    /\ enq[Producer].cycles = 1

\* C10: a call of _enqueue_message never waits and makes at most two
\* drain-and-reinsert cycles; it ends with the message enqueued as the last
\* entry or discarded.
C10_EnqueueBounded ==
    LET e == enq[Producer] IN
    /\ e.cycles <= 2
    /\ e.pc \in {"put", "drain", "restore"} => ENABLED EnqStep(Producer)
    /\ e.pc = "done" => e.outcome \in {"enqueued", "discarded"}
    /\ (e.pc = "done" /\ hist.alone /\ e.outcome = "enqueued") =>
          (queue # <<>> /\ queue[Len(queue)] = e.msg)
    /\ (e.pc = "done" /\ hist.alone /\ e.outcome = "discarded") =>
          \A i \in 1..Len(queue) : queue[i] # e.msg

\* a call that ended after its second drain cycle
C10_Witness == enq[Producer].pc = "done" /\ enq[Producer].cycles = 2

\* ------------------------------------------------------ claims on the service
\* a worker is active: the thread kept in _thread has not ended
WorkerActive == thread # 0 /\ thread \in alive

\* the step is a start_extraction of caller c that raised RuntimeError
RaisesBusy(c) == cpc[c] = "idle" /\ cpc'[c] = "busy"

\* C1: while a worker is active no step creates a worker thread or clears the
\* cancellation flag, and a start_extraction call that raises the busy error
\* is made with a worker active and leaves the thread, the flag, the running
\* worker, the channel and the summary as they were.
C1_BusyStartChangesNothing ==
    [][ /\ WorkerActive =>
            /\ alive' \subseteq alive
            /\ thread' \in {thread, 0}
            /\ cancel_event => cancel_event'
        /\ \A c \in Callers :
              RaisesBusy(c) =>
                 /\ WorkerActive
                 /\ UNCHANGED <<thread, alive, cancel_event, wpc, wloc, pub>>
                 /\ UNCHANGED <<queue, maxsize, dropped_messages, max_queue_depth>>
                 /\ UNCHANGED summary
      ]_vars

\* a caller was refused while the worker it met is inside extract_files with
\* the cancellation flag set
C1_Witness ==
    /\ \E c \in Callers : cpc[c] = "busy"
    /\ WorkerActive
    /\ wpc[thread] = "loop"
    /\ cancel_event

ExpectedTerminal(outcome) ==
    CASE outcome = "returned" -> Msg("state", "", "success")
      [] outcome = "cancelled" -> Msg("state", "", "cancelled")
      [] outcome = "raised" -> Msg("state", "failure text", "error")
      [] OTHER -> NoMessage

C4_WorkerNeverWaits ==
    \A r \in alive : ENABLED WorkerStep(r)

\* C5: with no consumer, a cancel() in progress can always take its next
\* step: it never waits on the channel.
C5_CancelNeverWaits ==
    \A c \in Callers : ~Idle(c) => ENABLED CallerStep(c)

\* ------------------------------------------------- claims on the run (RunSpec)
\* C11: when the cancellation flag is seen while a file is being streamed,
\* the output is left exactly as the call of process_file found it, before
\* the header of the file: nothing of the file stays, and what was written
\* before is untouched.
C11_CancelRestoresOutput ==
    (xf.pc = "idle" /\ xf.raised_at = "stream") => output = xf.entry_output

\* a run cancelled after the header and a chunk of a file were written,
\* behind the record of an earlier file
C11_Witness ==
    /\ xf.pc = "idle"
    /\ xf.raised_at = "stream"
    /\ xf.header_written
    /\ xf.offset > 0
    /\ xf.entry_output # <<>>

\* the chunks of a file of this size read n at a time, from this offset
RECURSIVE ChunksFrom(_, _, _, _)
ChunksFrom(p, from, size, n) ==
    IF from >= size THEN <<>>
    ELSE LET len == IF size - from < n THEN size - from ELSE n
         IN  <<Chunk(p, from, len)>> \o ChunksFrom(p, from + len, size, n)

\* the whole record of a file: "<path>:\n" + content + "\n\n\n"
RecordOf(p) ==
    <<Header(p)>> \o ChunksFrom(p, 0, FileSize(tree.fate[p]),
                                IF tree.fate[p] = "tight" THEN CHUNK_SIZE \div 2
                                ELSE CHUNK_SIZE)
                 \o <<Trailer(p)>>

RECURSIVE RecordsOf(_)
RecordsOf(paths) ==
    IF paths = <<>> THEN <<>> ELSE RecordOf(Head(paths)) \o RecordsOf(Tail(paths))

\* a call of process_file has not returned yet
InCall == xf.pc \in {"open", "stream", "record_count", "record_size", "record_details"}

\* the output without what the call in progress has written so far
CompletedPart ==
    IF InCall THEN SubSeq(output, 1, Len(xf.entry_output)) ELSE output

\* C12: after every step of every run, whatever failed, the completed part
\* of the output is the whole records of the files whose processing returned
\* success, one record for each, in the order they were processed.
C12_OutputIsWholeRecords ==
    /\ CompletedPart = RecordsOf(xf.returned)
    /\ \A i, j \in DOMAIN xf.returned : xf.returned[i] = xf.returned[j] => i = j

\* a completed run that wrote two records around a file that failed
C12_Witness ==
    /\ xf.pc = "idle"
    /\ xf.outcome = "success"
    /\ Len(xf.returned) = 2
    /\ \E p \in Paths : xf.errors[p] > 0 /\ tree.fate[p] \in {"undecodable", "memory"}
    /\ output # <<>>

\* the per-file conditions: not found or permission denied, decode failure
PerFileFailure == {"noaccess", "undecodable"}

\* C13: a file that fails with a per-file condition does not end the run:
\* process_file returns False with the output as it found it, one error
\* message is published for the file and the file is counted as skipped
\* once in the run.
C13_FailedFileSkippedOnce ==
    \A p \in Paths :
        tree.fate[p] \in PerFileFailure =>
            /\ xf.errors[p] <= 1
            /\ xf.skips[p] <= 1
            /\ (xf.pc = "returned" /\ xf.path = p) =>
                   (xf.result = "failed" /\ output = xf.entry_output)

\* C14: a file under memory pressure at every attempt leaves nothing in the
\* output and no record in the summary, is not among the processed files,
\* is counted as skipped once, and the run goes on: a run that is not
\* cancelled completes, with the file counted.
C14_MemoryPressureSkippedOnce ==
    \A p \in Paths :
        tree.fate[p] = "memory" =>
            /\ \A i \in DOMAIN CompletedPart : CompletedPart[i].path # p
            /\ ~extraction_summary.details[p].present
            /\ p \notin processed_files
            /\ xf.skips[p] <= 1
            /\ (xf.pc = "idle" /\ xf.run > 0 /\ xf.outcome # "cancelled") =>
                   (xf.outcome = "success" /\ xf.skips[p] = 1)

\* C15: in the metrics of every run whose total is known, the files
\* processed and the files skipped together are no more than the total.
C15_CountersWithinTotal ==
    (metrics.present /\ metrics.total_files_known) =>
        metrics.processed_files + metrics.skipped_files <= metrics.total_files

\* ExtractorService.get_summary on the caller thread, at this moment
GetSummary == BuildSummary(extraction_summary)

\* the file records of a summary, and those of one extension
FileRecords(snap) == {p \in Paths : snap.details[p].present}

RecordsWith(snap, ext) == {p \in FileRecords(snap) : snap.details[p].extension = ext}

RECURSIVE SumOfSizes(_, _)
SumOfSizes(snap, files) ==
    IF files = {} THEN 0
    ELSE LET p == CHOOSE q \in files : TRUE
         IN  snap.details[p].size + SumOfSizes(snap, files \ {p})

\* C16: after any sequence of runs, for every extension the count of the
\* summary is the number of file records with that extension and the size
\* is the sum of their sizes, so that total_files is the number of file
\* records.
C16_SummaryConsistentAfterRuns ==
    xf.pc = "idle" =>
        /\ \A ext \in DOMAIN GetSummary.stats :
               /\ GetSummary.stats[ext].count = Cardinality(RecordsWith(GetSummary, ext))
               /\ GetSummary.stats[ext].total_size =
                      SumOfSizes(GetSummary, RecordsWith(GetSummary, ext))
        /\ GetSummary.total_files = Cardinality(FileRecords(GetSummary))

\* C17: a snapshot taken while the worker runs never shows an update half
\* applied: its total_files is the number of its file records, and every
\* extension count is the number of file records with that extension.
C17_SnapshotNeverPartial ==
    xf.pc # "idle" =>
        /\ GetSummary.total_files = Cardinality(FileRecords(GetSummary))
        /\ \A ext \in DOMAIN GetSummary.stats :
               GetSummary.stats[ext].count = Cardinality(RecordsWith(GetSummary, ext))

\* C18: a run of the same request over the same folder, made after a run
\* that completed, writes the same output records and leaves the same
\* summary (counts, sizes, hashes, file records) as the run before.
C18_SecondRunSameResult ==
    \A i \in DOMAIN ended :
        i > 1 =>
            /\ ended[i].output = ended[i - 1].output
            /\ ended[i].stats = ended[i - 1].stats
            /\ ended[i].details = ended[i - 1].details

\* the calls of process_file made by the loop of extract_files so far
LoopAttempts == xf.processed_count + xf.skipped_count - xf.skipped_specs

\* C20: within a run the first argument of the progress callbacks never
\* decreases from one call to the next, and after the first call (0, total)
\* there is at most one call for each file the loop attempted.
C20_ProgressMonotonic ==
    /\ \A i \in DOMAIN progress :
           i > 1 => progress[i - 1][1] <= progress[i][1]
    /\ progress # <<>> => Len(progress) <= 1 + LoopAttempts

\* ---------------------------------------------- claims on the service (Spec)
\* C19: the terminal state message of every run, whatever its result,
\* carries the metrics record of the run.
C19_TerminalCarriesMetrics ==
    \A r \in Runs :
        wloc[r].state_publishes > 0 => "metrics" \in PayloadKeys(wloc[r].terminal)

\* ------------------------------------------ claims on one run (FirstRunSpec)
\* the warnings about indeterminate progress published so far
IndeterminateWarnings ==
    {i \in DOMAIN queue : queue[i].text = "Large directory detected"}

\* C21: a run whose eager enumeration failed for lack of memory publishes one
\* warning about indeterminate progress, passes total = -1 in every progress
\* callback, the first and the last included, and reports total_files = -1
\* in its metrics.
C21_FallbackKeepsSentinel ==
    xf.lazy =>
        /\ Cardinality(IndeterminateWarnings) = 1
        /\ \A i \in DOMAIN progress : progress[i][2] = -1
        /\ metrics.present => metrics.total_files = -1

\* the place of a file in the output: the specification files in their
\* order, then the files of the traversal
OutputRank(p) ==
    IF p \in SpecPaths
    THEN CHOOSE i \in DOMAIN SPECIFICATION_FILES : SPECIFICATION_FILES[i] = p
    ELSE Len(SPECIFICATION_FILES) + 1

\* the headers of a file in a piece of output
HeadersOf(out, p) == {i \in DOMAIN out : out[i] = Header(p)}

C28_RetryLoopBounded ==
    /\ xf.pc = "stream" =>
           /\ xf.streams \in 1..4
           /\ xf.chunk_size * 2 ^ (xf.streams - 1) = CHUNK_SIZE
           /\ xf.chunk_size >= MinChunkSize
    /\ (xf.pc = "stream" /\ xf.offset = 0 /\ ~xf.header_written) =>
           /\ Len(output) = xf.start_position
           /\ output = xf.entry_output
    /\ (xf.pc = "returned" /\ xf.result = "skipped") =>
           /\ xf.streams = 4
           /\ xf.chunk_size = MinChunkSize
           /\ Len(output) = xf.start_position
           /\ output = xf.entry_output

\* a file skipped after its fourth attempt, with records before it in the output
C28_Witness ==
    /\ xf.pc = "returned"
    /\ xf.result = "skipped"
    /\ xf.streams = 4
    /\ xf.entry_output # <<>>

\* C29: a run that ended successfully on a total known from the eager scan
\* made all its progress callbacks with that total, the first one with count
\* 0 and the last one with count equal to the total.
C29_ProgressEndsAtTotal ==
    (xf.pc = "idle" /\ xf.outcome = "success" /\ ~xf.lazy /\ progress # <<>>) =>
        /\ \A i \in DOMAIN progress : progress[i][2] = xf.total_files
        /\ progress[1] = <<0, xf.total_files>>
        /\ progress[Len(progress)][1] = xf.total_files

\* ================================================================ text
\* A str is the sequence of its characters, so that strip, lower, startswith,
\* splitext and fnmatch are computed on the characters as Python does.
Capitals == <<"A", "D", "M", "P", "X", "Y">>
Smalls == <<"a", "d", "m", "p", "x", "y">>
Whitespace == {" ", "\t"}

\* str.lower() on one character
LowerChar(c) ==
    IF \E i \in DOMAIN Capitals : Capitals[i] = c
    THEN Smalls[CHOOSE i \in DOMAIN Capitals : Capitals[i] = c]
    ELSE c

\* str.lower()
Lower(s) == [i \in DOMAIN s |-> LowerChar(s[i])]

\* str.startswith(prefix)
StartsWith(s, prefix) ==
    /\ Len(prefix) <= Len(s)
    /\ SubSeq(s, 1, Len(prefix)) = prefix

RECURSIVE LStrip(_)
LStrip(s) ==
    IF s # <<>> /\ Head(s) \in Whitespace THEN LStrip(Tail(s)) ELSE s

RECURSIVE RStrip(_)
RStrip(s) ==
    IF s # <<>> /\ s[Len(s)] \in Whitespace
    THEN RStrip(SubSeq(s, 1, Len(s) - 1))
    ELSE s

\* str.strip()
Strip(s) == RStrip(LStrip(s))

\* os.path.splitext(name)[1] of a name without separator: from the last
\* dot on, unless only dots come before it
SplitExt(name) ==
    LET dots == {i \in DOMAIN name : name[i] = "."}
    IN  IF dots = {} THEN <<>>
        ELSE LET dotIndex == CHOOSE i \in dots : \A j \in dots : j <= i
             IN  IF \E k \in 1..(dotIndex - 1) : name[k] # "."
                 THEN SubSeq(name, dotIndex, Len(name))
                 ELSE <<>>

\* fnmatch.fnmatch(name, pattern) where os.path.normcase changes nothing:
\* "*" stands for any characters, "?" for one, any other for itself
RECURSIVE FnMatch(_, _)
FnMatch(name, pattern) ==
    IF pattern = <<>> THEN name = <<>>
    ELSE IF Head(pattern) = "*"
         THEN \/ FnMatch(name, Tail(pattern))
              \/ name # <<>> /\ FnMatch(Tail(name), pattern)
    ELSE IF Head(pattern) = "?"
         THEN name # <<>> /\ FnMatch(Tail(name), Tail(pattern))
    ELSE name # <<>> /\ Head(name) = Head(pattern)
                     /\ FnMatch(Tail(name), Tail(pattern))

\* ================================================================ the scanner
\* FileProcessor._iter_eligible_file_paths on a folder of ten files.  A path
\* is the sequence of the names from the folder down; os.walk hands out each
\* directory with its sub-directories and its files.
Root == <<>>
Listing ==
    (Root :> [dirs  |-> << <<"d">>, <<".", "d">>, <<"x">> >>,
              files |-> << <<"a", ".", "p", "y">>, <<"A", ".", "P", "Y">>,
                           <<".", "a", ".", "p", "y">>, <<"m", ".", "m", "d">>,
                           <<"o", ".", "p", "y">>, <<"y">> >>])
    @@ (<< <<"d">> >> :> [dirs |-> <<>>, files |-> << <<"a", ".", "p", "y">> >>])
    @@ (<< <<".", "d">> >> :> [dirs |-> <<>>, files |-> << <<"a", ".", "p", "y">> >>])
    @@ (<< <<"x">> >> :> [dirs |-> << <<"d">> >>,
                          files |-> << <<"a", ".", "p", "y">> >>])
    @@ (<< <<"x">>, <<"d">> >> :> [dirs |-> <<>>,
                                   files |-> << <<"m", ".", "m", "d">> >>])

Range(s) == {s[i] : i \in DOMAIN s}

\* os.path.join(root, file_name)
Join(root, name) == Append(root, name)

\* every file under the folder
FolderFiles == UNION {{Join(d, f) : f \in Range(Listing[d].files)} : d \in DOMAIN Listing}

\* the inputs of the calls explored
ScanModes == {"inclusion", "exclusion"}
ScanExtensions == {<<".", "p", "y">>, <<".", "P", "Y">>, <<".", "m", "d">>,
                   <<"*">>, <<"*", ".", "*">>}
ScanExcludeFiles == {<<"*", ".", "m", "d">>, <<"a", ".", "p", "y">>}
ScanExcludeFolders == {<<"x">>, <<"?">>}
ScanProcessed == {Join(Root, <<"a", ".", "p", "y">>), Join(<< <<"d">> >>, <<"a", ".", "p", "y">>)}
Elsewhere == << <<".", ".">>, <<"o", ".", "p", "y">> >>
ScanOutputs == {Join(Root, <<"o", ".", "p", "y">>), Elsewhere}

wildcard_tokens == {<<"*">>, <<"*", ".", "*">>}

\* the filters of one directory handed out by os.walk
KeptDirsMut(dirs, include_hidden, exclude_folders) ==
    IF include_hidden THEN dirs
    ELSE SelectSeq(dirs, LAMBDA d : ~StartsWith(d, <<".">>))

KeptDirs(dirs, include_hidden, exclude_folders) ==
    LET mutable_dirs == IF include_hidden THEN dirs
                        ELSE SelectSeq(dirs, LAMBDA d : ~StartsWith(d, <<".">>))
    IN  SelectSeq(mutable_dirs,
                  LAMBDA d : ~\E pattern \in exclude_folders : FnMatch(d, pattern))

KeptFiles(files, include_hidden, exclude_files) ==
    LET mutable_files == IF include_hidden THEN files
                         ELSE SelectSeq(files, LAMBDA f : ~StartsWith(f, <<".">>))
    IN  SelectSeq(mutable_files,
                  LAMBDA f : ~\E pattern \in exclude_files : FnMatch(f, pattern))

\* the test on the extension of one file
ShouldProcessMut(file_name, mode, normalized_extensions, has_wildcard) ==
    LET file_ext_lower == Lower(SplitExt(file_name))
    IN  IF mode = "inclusion" THEN file_ext_lower \in normalized_extensions
        ELSE IF mode = "exclusion" THEN file_ext_lower \notin normalized_extensions
        ELSE FALSE

ShouldProcess(file_name, mode, normalized_extensions, has_wildcard) ==
    LET file_ext_lower == Lower(SplitExt(file_name))
    IN  IF mode = "inclusion"
        THEN has_wildcard \/ file_ext_lower \in normalized_extensions
        ELSE IF mode = "exclusion"
        THEN IF has_wildcard THEN FALSE
             ELSE file_ext_lower \notin normalized_extensions
        ELSE FALSE

\* the files of one directory that the loop over filtered_files yields
YieldedOf(root, files, s, processed, seen) ==
    SelectSeq([i \in DOMAIN files |-> Join(root, files[i])],
              LAMBDA file_path :
                  /\ file_path # s.output_file_abs
                  /\ file_path \notin processed
                  /\ file_path \notin seen
                  /\ ShouldProcess(file_path[Len(file_path)], s.mode,
                                   s.normalized_extensions, s.has_wildcard))

\* the call with its arguments, before the first statement
NoService ==
    /\ maxsize = STATUS_QUEUE_MAX_SIZE
    /\ queue = <<>>
    /\ dropped_messages = 0
    /\ max_queue_depth = 0
    /\ enq = [r \in Runs |-> EnqIdle]
    /\ published = 0
    /\ hist = HistIdle
    /\ SvcIdle

ScanInit ==
    /\ NoService
    /\ NoRun
    /\ norm = CallIdle
    /\ req = CallIdle
    /\ gui = GuiIdle
    /\ processed_files \in SUBSET ScanProcessed
    /\ \E mode \in ScanModes, include_hidden \in BOOLEAN,
          extensions \in SUBSET ScanExtensions,
          exclude_files \in SUBSET ScanExcludeFiles,
          exclude_folders \in SUBSET ScanExcludeFolders,
          output_file_abs \in ScanOutputs :
          scan = [pc |-> "call", mode |-> mode, include_hidden |-> include_hidden,
                  extensions |-> extensions, exclude_files |-> exclude_files,
                  exclude_folders |-> exclude_folders,
                  output_file_abs |-> output_file_abs,
                  normalized_extensions |-> {}, has_wildcard |-> FALSE,
                  walk |-> <<>>, seen_paths |-> {}, yielded |-> <<>>]

scanFixed == <<queue, maxsize, dropped_messages, max_queue_depth, enq, published,
               hist, svcVars, tree, xf, output, processed_files,
               extraction_summary, progress, metrics, ended, norm, req, gui>>

\* lines 495-505: the locals set before the walk
ScanCall ==
    /\ scan.pc = "call"
    /\ scan' = [scan EXCEPT
                  !.pc = "walk",
                  !.normalized_extensions =
                      {Lower(extension) : extension \in scan.extensions \ wildcard_tokens},
                  !.has_wildcard = (scan.extensions \cap wildcard_tokens # {}),
                  !.walk = <<Root>>]
    /\ UNCHANGED scanFixed

\* one directory of os.walk with is_cancelled() false throughout: its files
\* are yielded, its kept sub-directories are walked next
ScanDirectory ==
    /\ scan.pc = "walk"
    /\ scan.walk # <<>>
    /\ LET root == Head(scan.walk)
           filtered_dirs == KeptDirs(Listing[root].dirs, scan.include_hidden,
                                     scan.exclude_folders)
           filtered_files == KeptFiles(Listing[root].files, scan.include_hidden,
                                       scan.exclude_files)
           found == YieldedOf(root, filtered_files, scan, processed_files,
                              scan.seen_paths)
       IN  scan' = [scan EXCEPT
                      !.walk = [i \in DOMAIN filtered_dirs |-> Join(root, filtered_dirs[i])]
                               \o Tail(scan.walk),
                      !.seen_paths = scan.seen_paths \cup Range(found),
                      !.yielded = scan.yielded \o found]
    /\ UNCHANGED scanFixed

\* lines 508-509 and 544-547: is_cancelled() answers true
ScanRaisesCancelled ==
    /\ scan.pc = "walk"
    /\ scan.walk # <<>>
    /\ scan' = [scan EXCEPT !.pc = "cancelled"]
    /\ UNCHANGED scanFixed

\* os.walk is exhausted: the generator returns
ScanReturn ==
    /\ scan.pc = "walk"
    /\ scan.walk = <<>>
    /\ scan' = [scan EXCEPT !.pc = "done"]
    /\ UNCHANGED scanFixed

ScanNext == ScanCall \/ ScanDirectory \/ ScanRaisesCancelled \/ ScanReturn

ScanSpec == ScanInit /\ [][ScanNext]_vars

\* ================================================================ claims on the scanner (ScanSpec)
\* what the claims say of one file under the folder, written from their words
IsHidden(name) == StartsWith(name, <<".">>)
DirsOf(p) == {p[i] : i \in 1..(Len(p) - 1)}
NameOf(p) == p[Len(p)]

SurvivesHidden(p) == scan.include_hidden \/ \A i \in DOMAIN p : ~IsHidden(p[i])
SurvivesExclude(p) ==
    /\ \A d \in DirsOf(p) : \A pattern \in scan.exclude_folders : ~FnMatch(d, pattern)
    /\ \A pattern \in scan.exclude_files : ~FnMatch(NameOf(p), pattern)
Survivors ==
    {p \in FolderFiles : SurvivesHidden(p) /\ SurvivesExclude(p) /\ p # scan.output_file_abs}
HasWildcardToken == \E token \in scan.extensions : token \in {<<"*">>, <<"*", ".", "*">>}
YieldedSet == Range(scan.yielded)

\* C23 (as amended): with a wildcard token in the extension set, a completed
\* scan in inclusion mode has yielded exactly the files that survive the
\* hidden, exclude and output-path filters and are not in the processed set,
\* whatever their extension and the other tokens, and a completed scan in
\* exclusion mode has yielded nothing.
C23_WildcardYieldsAllOrNone ==
    (scan.pc = "done" /\ HasWildcardToken) =>
        /\ scan.mode = "inclusion" => YieldedSet = Survivors \ processed_files
        /\ scan.mode = "exclusion" => scan.yielded = <<>>

\* C23 as stated: every survivor of the hidden, exclude and output-path
\* filters is yielded in inclusion mode, none in exclusion mode.
C23_AsStated ==
    (scan.pc = "done" /\ HasWildcardToken) =>
        /\ scan.mode = "inclusion" => YieldedSet = Survivors
        /\ scan.mode = "exclusion" => scan.yielded = <<>>

\* a completed inclusion scan with "*" next to ".md" that yielded the file
\* without extension and a ".py" file while another was already processed
C23_Witness ==
    /\ scan.pc = "done"
    /\ scan.mode = "inclusion"
    /\ scan.extensions = {<<"*">>, <<".", "m", "d">>}
    /\ processed_files # {}
    /\ Join(Root, <<"y">>) \in YieldedSet
    /\ Join(Root, <<"A", ".", "P", "Y">>) \in YieldedSet

\* the mode test of the claim, on the tokens as given
PassesModeAsStated(p) ==
    LET ext == Lower(SplitExt(NameOf(p)))
    IN  IF scan.mode = "inclusion" THEN ext \in scan.extensions
        ELSE ext \notin scan.extensions

\* the mode test on the lower-cased tokens, a wildcard token passing every
\* file in inclusion mode and none in exclusion mode
PassesMode(p) ==
    LET ext == Lower(SplitExt(NameOf(p)))
        tokens == {Lower(token) : token \in scan.extensions}
    IN  IF HasWildcardToken THEN scan.mode = "inclusion"
        ELSE IF scan.mode = "inclusion" THEN ext \in tokens
        ELSE ext \notin tokens

NoDuplicates(s) == \A i, j \in DOMAIN s : s[i] = s[j] => i = j

\* C30 (as amended): a completed scan has yielded, each once, exactly the
\* files under the folder that pass the hidden test on their name and on
\* every directory above them, have no directory matching an exclude-folder
\* pattern, match no exclude-file pattern, are not the output path, are not
\* in the processed set, and whose lower-cased extension passes the mode test
\* against the lower-cased tokens, a wildcard token passing every file in
\* inclusion mode and none in exclusion mode.
C30_ScannerYieldsExactly ==
    scan.pc = "done" =>
        /\ NoDuplicates(scan.yielded)
        /\ YieldedSet = {p \in Survivors \ processed_files : PassesMode(p)}

\* C30 as stated: the mode test is membership of the lower-cased extension
\* in the set as given.
C30_AsStated ==
    scan.pc = "done" =>
        /\ NoDuplicates(scan.yielded)
        /\ YieldedSet = {p \in Survivors \ processed_files : PassesModeAsStated(p)}

\* a completed exclusion scan on ".md" with hidden names left out, the folder
\* "x" excluded, the output inside the folder and a file already processed,
\* that yielded the files left
C30_Witness ==
    /\ scan.pc = "done"
    /\ scan.mode = "exclusion"
    /\ ~scan.include_hidden
    /\ scan.extensions = {<<".", "m", "d">>}
    /\ scan.exclude_folders = {<<"x">>}
    /\ scan.output_file_abs \in FolderFiles
    /\ processed_files = {Join(Root, <<"a", ".", "p", "y">>)}
    /\ YieldedSet = {Join(Root, <<"A", ".", "P", "Y">>), Join(Root, <<"y">>),
                     Join(<< <<"d">> >>, <<"a", ".", "p", "y">>)}

\* ================================================================ the normaliser
\* normalise_extension_tokens on sequences of at most MaxTokens raw tokens
MaxTokens == 3

RawTokens == {<<"P", "Y">>, <<"*", ".", "M", "D">>, <<".", "p", "y">>, <<" ">>, <<>>,
              <<"*">>, <<" ", "*", ".", "*", "\t">>, <<"m", "d", " ">>, <<"*", "p">>}

\* dict.setdefault(token, None) on the keys in insertion order
SetDefault(ordered_unique, token) ==
    IF \E i \in DOMAIN ordered_unique : ordered_unique[i] = token
    THEN ordered_unique
    ELSE Append(ordered_unique, token)

\* the body of the loop for one raw token
TokenStepMut(ordered_unique, extension) ==
    LET token == Lower(Strip(extension))
    IN  IF token = <<>> THEN ordered_unique
        ELSE IF token \in {<<"*">>, <<"*", ".", "*">>}
        THEN SetDefault(ordered_unique, token)
        ELSE SetDefault(ordered_unique,
                        IF StartsWith(token, <<".">>) THEN token ELSE <<".">> \o token)

TokenStep(ordered_unique, extension) ==
    LET token == Lower(Strip(extension))
    IN  IF token = <<>> THEN ordered_unique
        ELSE IF token \in {<<"*">>, <<"*", ".", "*">>}
        THEN SetDefault(ordered_unique, token)
        ELSE LET unstarred == IF StartsWith(token, <<"*", ".">>) THEN Tail(token)
                              ELSE token
                 dotted == IF StartsWith(unstarred, <<".">>) THEN unstarred
                           ELSE <<".">> \o unstarred
             IN  SetDefault(ordered_unique, dotted)

NormInit ==
    /\ NoService
    /\ NoRun
    /\ processed_files = {}
    /\ scan = CallIdle
    /\ req = CallIdle
    /\ gui = GuiIdle
    /\ \E n \in 0..MaxTokens : \E raw_extensions \in [1..n -> RawTokens] :
          norm = [pc |-> "loop", raw_extensions |-> raw_extensions, index |-> 1,
                  ordered_unique |-> <<>>, result |-> <<>>]

normFixed == <<queue, maxsize, dropped_messages, max_queue_depth, enq, published,
               hist, svcVars, tree, xf, output, processed_files,
               extraction_summary, progress, metrics, ended, scan, req, gui>>

\* lines 14-25: one iteration of the loop
NormToken ==
    /\ norm.pc = "loop"
    /\ norm.index <= Len(norm.raw_extensions)
    /\ norm' = [norm EXCEPT
                  !.ordered_unique = TokenStep(norm.ordered_unique,
                                               norm.raw_extensions[norm.index]),
                  !.index = norm.index + 1]
    /\ UNCHANGED normFixed

\* line 26: return tuple(ordered_unique.keys())
NormReturn ==
    /\ norm.pc = "loop"
    /\ norm.index > Len(norm.raw_extensions)
    /\ norm' = [norm EXCEPT !.pc = "done", !.result = norm.ordered_unique]
    /\ UNCHANGED normFixed

NormNext == NormToken \/ NormReturn

NormSpec == NormInit /\ [][NormNext]_vars

\* ================================================================ claims on the normaliser (NormSpec)
\* the reference result of the claim, token by token
Trimmed(t) ==
    LET inside == {i \in DOMAIN t : t[i] \notin {" ", "\t"}}
    IN  IF inside = {} THEN <<>>
        ELSE SubSeq(t, CHOOSE i \in inside : \A j \in inside : i <= j,
                       CHOOSE i \in inside : \A j \in inside : j <= i)

Reference(t) ==
    LET token == Lower(Trimmed(t))
    IN  IF token = <<"*">> \/ token = <<"*", ".", "*">> THEN token
        ELSE IF Len(token) >= 2 /\ token[1] = "*" /\ token[2] = "."
        THEN SubSeq(token, 2, Len(token))
        ELSE IF token[1] = "." THEN token
        ELSE <<".">> \o token

\* the positions of raw whose token is not empty once trimmed
Kept(raw) == {i \in DOMAIN raw : Trimmed(raw[i]) # <<>>}
FirstAppearance(raw, token) ==
    CHOOSE i \in Kept(raw) : /\ Reference(raw[i]) = token
                             /\ \A j \in Kept(raw) : Reference(raw[j]) = token => i <= j

COMMON_EXTENSIONS == <<".css", ".csv", ".db", ".html", ".ini", ".js", ".json", ".log",
                       ".md", ".py", ".txt", ".xml", ".yaml", ".yml">>

None == <<>>
Some(v) == <<v>>
Optional(S) == {None} \cup {Some(v) : v \in S}

StartExtensions == {<<>>, <<".py">>, <<"*">>}
StartPatterns == {<<>>, <<"*.log">>}

\* the seven extraction parameters, each given or None
StartParams ==
    [folder_path : Optional({"folder"}), mode : Optional({"inclusion", "exclusion"}),
     include_hidden : Optional(BOOLEAN), extensions : Optional(StartExtensions),
     exclude_files : Optional(StartPatterns), exclude_folders : {Some(<<>>)},
     output_file_name : {Some("out.txt")}]

NoParams ==
    [folder_path |-> None, mode |-> None, include_hidden |-> None, extensions |-> None,
     exclude_files |-> None, exclude_folders |-> None, output_file_name |-> None]

\* tuple(value or ())
TupleOrEmpty(value) == IF value = None \/ value[1] = <<>> THEN <<>> ELSE value[1]

\* the call: either a request or keyword parameters, a progress callback or
\* None, and a worker already running or not
StartInit ==
    /\ NoService
    /\ NoRun
    /\ processed_files = {}
    /\ scan = CallIdle
    /\ norm = CallIdle
    /\ gui = GuiIdle
    /\ \E params \in StartParams, by_request \in BOOLEAN, progress_callback \in BOOLEAN,
          is_running \in BOOLEAN :
          req = [pc |-> "call",
                 request |-> IF by_request THEN Some(params) ELSE None,
                 kwargs |-> IF by_request THEN NoParams ELSE params,
                 progress_callback |-> progress_callback,
                 is_running |-> is_running,
                 resolved_extensions |-> <<>>, resolved_exclude_files |-> <<>>,
                 resolved_exclude_folders |-> <<>>,
                 raised |-> "none", args |-> None]

startFixed == <<queue, maxsize, dropped_messages, max_queue_depth, enq, published,
                hist, svcVars, tree, xf, output, processed_files,
                extraction_summary, progress, metrics, ended, scan, norm, gui>>

\* lines 132-140: the fields of a request replace the keyword parameters
StartUnpackRequest ==
    /\ req.pc = "call"
    /\ req' = [req EXCEPT !.pc = "callback",
                          !.kwargs = IF req.request # None THEN req.request[1]
                                     ELSE req.kwargs]
    /\ UNCHANGED startFixed

\* lines 142-143
StartNoCallback ==
    /\ req.pc = "callback"
    /\ ~req.progress_callback
    /\ req' = [req EXCEPT !.pc = "raised", !.raised = "ValueError"]
    /\ UNCHANGED startFixed

\* lines 145-158: a parameter is None
StartMissing ==
    /\ req.pc = "callback"
    /\ req.progress_callback
    /\ \E name \in DOMAIN req.kwargs : req.kwargs[name] = None
    /\ req' = [req EXCEPT !.pc = "raised", !.raised = "ValueError"]
    /\ UNCHANGED startFixed

\* lines 160-162
StartResolve ==
    /\ req.pc = "callback"
    /\ req.progress_callback
    /\ \A name \in DOMAIN req.kwargs : req.kwargs[name] # None
    /\ req' = [req EXCEPT
                 !.pc = "lock",
                 !.resolved_extensions = TupleOrEmpty(req.kwargs.extensions),
                 !.resolved_exclude_files = TupleOrEmpty(req.kwargs.exclude_files),
                 !.resolved_exclude_folders = TupleOrEmpty(req.kwargs.exclude_folders)]
    /\ UNCHANGED startFixed

\* lines 164-166
StartBusy ==
    /\ req.pc = "lock"
    /\ req.is_running
    /\ req' = [req EXCEPT !.pc = "raised", !.raised = "RuntimeError"]
    /\ UNCHANGED startFixed

\* lines 168-184: the worker thread is started on these arguments
StartThread ==
    /\ req.pc = "lock"
    /\ ~req.is_running
    /\ req' = [req EXCEPT
                 !.pc = "started",
                 !.args = Some([folder_path |-> req.kwargs.folder_path[1],
                                mode |-> req.kwargs.mode[1],
                                include_hidden |-> req.kwargs.include_hidden[1],
                                extensions |-> req.resolved_extensions,
                                exclude_files |-> req.resolved_exclude_files,
                                exclude_folders |-> req.resolved_exclude_folders,
                                output_file_name |-> req.kwargs.output_file_name[1]])]
    /\ UNCHANGED startFixed

StartNext ==
    \/ StartUnpackRequest
    \/ StartNoCallback
    \/ StartMissing
    \/ StartResolve
    \/ StartBusy
    \/ StartThread

StartSpec == StartInit /\ [][StartNext]_vars

\* ================================================================ claims on start_extraction (StartSpec)
\* C25: a worker started in inclusion mode on an empty extension set has
\* received COMMON_EXTENSIONS as its extensions.
C25_InclusionDefaultsToCommon ==
    (/\ req.pc = "started"
     /\ req.kwargs.mode = Some("inclusion")
     /\ req.kwargs.extensions = Some(<<>>))
        => req.args[1].extensions = COMMON_EXTENSIONS

\* ================================================================ claims on the service (Spec), continued
\* What the service keeps of the payload passed to _publish_state_update:
\* the method assigns no attribute (243-285) and the class defines no
\* get_last_state_payload, so getattr(service, "get_last_state_payload", None)
\* of run_cli finds nothing to call.
LastStatePayload == None

\* C26: once _publish_state_update(payload) has returned, the last state
\* payload the service gives back is payload, whether or not the state
\* message went onto the channel.
C26_LastPayloadKept ==
    \A r \in Runs :
        (wpc[r] = "finally" /\ wloc[r].state_publishes > 0)
            => LastStatePayload = Some(wloc[r].terminal)

\* C27: when the worker leaves _publish_state_update its terminal state
\* message has been put on the channel, where it stays until the consumer
\* receives it: no interleaving of cancel() and of the consumer with the
\* drain and the reinsertions loses it.
C27_TerminalStateNeverLost ==
    \A r \in Runs :
        (wpc[r] = "finally" /\ wloc[r].state_publishes > 0)
            => wloc[r].delivered >= 1

\* ================================================================ the terminal publish alone
\* _publish_state_update run by the worker with no other thread on the
\* channel, from any content of a channel of capacity up to MaxSaturated
MaxSaturated == 3

PublishInit ==
    /\ maxsize \in 1..MaxSaturated
    /\ \E n \in 0..MaxSaturated :
          /\ n <= maxsize
          /\ \E levels \in Prefilled(n) : queue = InitialQueue(levels)
    /\ dropped_messages = 0
    /\ max_queue_depth = 0
    /\ enq = [r \in Runs |-> EnqIdle]
    /\ published = 0
    /\ hist = [HistIdle EXCEPT !.pre = queue]
    /\ thread = 1
    /\ alive = {1}
    /\ cancel_event = FALSE
    /\ cpc = IdleCaller
    /\ wpc = [r \in Runs |-> IF r = 1 THEN "publish" ELSE "none"]
    /\ \E result \in {"success", "cancelled", "error"} :
          wloc = [r \in Runs |-> IF r = 1 THEN [WlocIdle EXCEPT !.result = result]
                                 ELSE WlocIdle]
    /\ pub = [r \in Runs |-> PubIdle]
    /\ summary = 0
    /\ FileIdle

PublishNext ==
    \/ PubTry(1)
    \/ PubGet(1)
    \/ PubRestore(1)
    \/ PubFinal(1)

PublishSpec == PublishInit /\ [][PublishNext]_vars

\* ================================================================ claims on the terminal publish (PublishSpec)
\* C31: on a channel that was full, _publish_state_update leaves the channel
\* as _enqueue_message("state", payload) would have left it: the same entry
\* evicted, the survivors in their order, the state message last.
C31_PublishAgreesWithEnqueue ==
    (wpc[1] = "finally" /\ Len(hist.pre) = maxsize) =>
        queue = EnqueueMessage(hist.pre, 0, 0, wloc[1].terminal).queue

\* ================================================================ claims on the channel (ChannelSpec), continued
\* C32: when a publish into a full channel has evicted an entry and put its
\* message, that message is the oldest entry of the channel, the one the
\* consumer dequeues first.
C32_NewMessageDequeuedFirst ==
    (/\ ReturnedAlone
     /\ PreFull
     /\ enq[Producer].outcome = "enqueued"
     /\ enq[Producer].cycles > 0)
        => Head(queue) = enq[Producer].msg

\* ================================================================ claims on one run (FirstRunSpec), continued
\* the files of the folder that the request leaves out: in the model the
\* specification files when their name or extension fails the request's tests
LeftOut == {p \in SpecPaths : tree.fate[p] # "absent" /\ ~tree.md_eligible}

\* C33: a file that the request's exclude-file patterns or extension test
\* leave out has no record in the output and no entry in the summary, README.md
\* and SPECIFICATIONS.md included.
C33_LeftOutNeverWritten ==
    \A p \in LeftOut :
        /\ HeadersOf(output, p) = {}
        /\ ~extraction_summary.details[p].present

\* the ends of record in an output, and the files with a header in it
TrailersOf(out) == {i \in DOMAIN out : out[i].kind = "trailer"}
WrittenIn(out) == {p \in Paths : HeadersOf(out, p) # {}}
RecordedNow == {p \in Paths : extraction_summary.details[p].present}

\* C34: from the moment the cancellation flag is set, the output gains at
\* most one record, and the only file that can be written or recorded is the
\* one that was inside process_file at that moment.
C34_OneRecordAfterCancel ==
    xf.flagged.set =>
        /\ Cardinality(TrailersOf(output)) <= Cardinality(TrailersOf(xf.flagged.output)) + 1
        /\ WrittenIn(output) \ WrittenIn(xf.flagged.output) \subseteq {xf.flagged.path}
        /\ RecordedNow \ xf.flagged.recorded \subseteq {xf.flagged.path}

\* the flag was set between the last cancellation check of a file and the
\* end of its record: the record was completed and entered in the summary
\* after the flag, behind an earlier record
C34_Witness ==
    /\ xf.flagged.set
    /\ xf.flagged.path # ""
    /\ xf.flagged.output # <<>>
    /\ Cardinality(TrailersOf(output)) = Cardinality(TrailersOf(xf.flagged.output)) + 1
    /\ xf.flagged.path \in RecordedNow \ xf.flagged.recorded

\* ------------------------------------------------- a cancelled run's messages
\* the step in which extract_files of worker r ends by ExtractionCancelled
RaisesCancelled(r) ==
    wloc[r].outcome # "cancelled" /\ wloc'[r].outcome = "cancelled"

ExtractionError == Msg("error", "Error during extraction", "")

\* C35: a run that ends cancelled publishes no error-level message on account
\* of the cancellation: the step in which the cancellation ends extract_files
\* leaves no error-level message at the tail of the channel.
C35_CancellationAddsNoError ==
    [][\A r \in Runs :
          RaisesCancelled(r) =>
              ~(queue' # <<>> /\ queue'[Len(queue')] = ExtractionError)]_vars

\* ------------------------------------------ the processed count and the summary
\* C36: when a run that began with a reset processor ends with success, the
\* metric processed_files is the number of file records in the summary, the
\* records of specification files included.
C36_ProcessedCountIsSummaryTotal ==
    metrics.present => metrics.processed_files = GetSummary.total_files

\* ------------------------------------------------- the dropped count of a run
\* the step in which worker r fills _last_run_metrics, enqueues the metrics
\* message and returns from extract_files (WMetrics)
RecordsMetrics(r) == wpc[r] = "metrics" /\ wpc'[r] = "publish"

\* line 720: "dropped_messages": self._dropped_messages, the counter as it
\* is when _last_run_metrics is filled, before the metrics message is
\* enqueued (747-756)
MetricsDropped == dropped_messages

\* C37: the dropped_messages value of a run's metrics is the number of
\* messages that the run's publishes discarded from the channel, the last
\* publish included: the value recorded by the step that ends extract_files
\* is the count of discards as that step leaves it, the discard made for
\* the metrics message included.
C37_DroppedMetricCountsWholeRun ==
    [][\A r \in Runs : RecordsMetrics(r) => MetricsDropped = dropped_messages']_vars

\* ------------------------------------------- cancel against the worker's exit
\* the step in which cancel of caller c puts "Extraction cancellation
\* requested" into the channel
PutsRequest(c) == cpc[c] = "cancel_put" /\ cpc'[c] = "cancel_set"

\* the workers whose terminal state message has been inserted
Terminated == {r \in Runs : wloc[r].delivered > 0}

\* C38: however cancel() interleaves with the exit of the worker, the
\* terminal state message is the last message of its run: cancel never puts
\* "Extraction cancellation requested" once the worker it cancels has
\* published its terminal state message.
C38_NoRequestAfterTerminal ==
    [][\A c \in Callers : PutsRequest(c) => Terminated = {}]_vars

\* ------------------------------------------------------ GuiSpec: the window
\* FileExtractorGUI (ui.py) on its service: the handlers of the Extract and
\* Cancel buttons and the check_queue callback run one at a time on the
\* event loop, the worker thread runs beside them.  The channel has the
\* capacity the window gives it and never fills within the bounds.
MaxGuiRuns == 2       \* presses of Extract that reach prepare_extraction

\* the thread of the event loop, as a caller of the service
GuiThread == CHOOSE c \in Callers : \A d \in Callers : c <= d

\* what no handler of the window touches
guiFixed == <<maxsize, enq, published, hist, wloc, pub, tree, xf, output,
              processed_files, extraction_summary, progress, metrics, ended,
              scan, norm, req>>

HasState(q) == \E i \in DOMAIN q : IsState(q[i])

\* execute, ui.py 678-691, with valid inputs: prepare_extraction (705-717)
\* resets the processor and sets extraction_in_progress; start_extraction
\* (719-754) calls the service and schedules check_queue in its finally
\* clause; when the service raises "Extraction already in progress" the
\* except clause of execute calls reset_extraction_state.
GuiExecute ==
    /\ gui.pc = "mainloop"
    /\ ~gui.extraction_in_progress
    /\ gui.runs < MaxGuiRuns
    /\ dropped_messages' = 0
    /\ max_queue_depth' = 0
    /\ summary' = 0
    /\ IF IsRunning
       THEN /\ gui' = [gui EXCEPT !.scheduled = @ + 1, !.runs = @ + 1]
            /\ UNCHANGED <<thread, alive, cancel_event, wpc>>
       ELSE /\ cancel_event' = FALSE
            /\ thread' = NewThread
            /\ alive' = alive \cup {NewThread}
            /\ wpc' = [wpc EXCEPT ![NewThread] = "extract_begin"]
            /\ gui' = [gui EXCEPT !.extraction_in_progress = TRUE,
                                  !.scheduled = @ + 1, !.runs = @ + 1]
    /\ UNCHANGED <<queue, cpc>>
    /\ UNCHANGED guiFixed

\* cancel_extraction, ui.py 1131-1139: extraction_in_progress is cleared and
\* service.cancel() is entered, up to its test of is_running (line 194 of
\* the service); the rest of cancel is CancelIsSet, CancelPut and CancelSet
GuiCancel ==
    /\ gui.pc = "mainloop"
    /\ gui.extraction_in_progress
    /\ gui' = [gui EXCEPT !.extraction_in_progress = FALSE, !.pc = "cancel"]
    /\ cpc' = [cpc EXCEPT ![GuiThread] = IF IsRunning THEN "cancel_isset" ELSE "idle"]
    /\ UNCHANGED <<queue, dropped_messages, max_queue_depth, thread, alive,
                   cancel_event, wpc, summary>>
    /\ UNCHANGED guiFixed

\* ui.py 1140-1144: service.cancel() has returned; reset_extraction_state
\* (1100-1129) enables the Extract button again
GuiCancelled ==
    /\ gui.pc = "cancel"
    /\ cpc[GuiThread] = "idle"
    /\ gui' = [gui EXCEPT !.pc = "mainloop"]
    /\ UNCHANGED <<queue, dropped_messages, max_queue_depth, thread, alive,
                   cancel_event, cpc, wpc, summary>>
    /\ UNCHANGED guiFixed

\* check_queue, ui.py 831-845: a scheduled callback fires and its loop takes
\* one message with get_nowait and dispatches it; a state message goes to
\* _handle_service_state, which clears extraction_in_progress (858-868)
GuiPoll ==
    /\ gui.pc \in {"mainloop", "polling"}
    /\ gui.pc = "mainloop" => gui.scheduled > 0
    /\ queue # <<>>
    /\ queue' = Tail(queue)
    /\ gui' = [gui EXCEPT !.pc = "polling",
                          !.scheduled = IF gui.pc = "mainloop" THEN @ - 1 ELSE @,
                          !.extraction_in_progress = @ /\ ~IsState(Head(queue))]
    /\ UNCHANGED <<dropped_messages, max_queue_depth, thread, alive,
                   cancel_event, cpc, wpc, summary>>
    /\ UNCHANGED guiFixed

\* ui.py 847-848: get_nowait raises Empty, the loop is over
GuiEmpty ==
    /\ gui.pc \in {"mainloop", "polling"}
    /\ gui.pc = "mainloop" => gui.scheduled > 0
    /\ queue = <<>>
    /\ gui' = [gui EXCEPT !.pc = "polled",
                          !.scheduled = IF gui.pc = "mainloop" THEN @ - 1 ELSE @]
    /\ UNCHANGED <<queue, dropped_messages, max_queue_depth, thread, alive,
                   cancel_event, cpc, wpc, summary>>
    /\ UNCHANGED guiFixed

\* ui.py 849-856, the finally clause: extraction_in_progress is cleared when
\* the service is not running; check_queue is scheduled again while it is
\* set, else reset_extraction_state is called
GuiFinally ==
    /\ gui.pc = "polled"
    /\ LET in_progress == gui.extraction_in_progress /\ IsRunning
       IN  gui' = [gui EXCEPT !.pc = "mainloop",
                              !.extraction_in_progress = in_progress,
                              !.scheduled = IF in_progress THEN @ + 1 ELSE @]
    /\ UNCHANGED <<queue, dropped_messages, max_queue_depth, thread, alive,
                   cancel_event, cpc, wpc, summary>>
    /\ UNCHANGED guiFixed

GuiStep ==
    \/ GuiExecute
    \/ GuiCancel
    \/ CancelIsSet(GuiThread)
    \/ CancelPut(GuiThread)
    \/ CancelSet(GuiThread)
    \/ GuiCancelled
    \/ GuiPoll
    \/ GuiEmpty
    \/ GuiFinally

\* the worker of the service; the eviction loop of _publish_state_update
\* needs a full channel and has no step here
GuiWorkerStep(r) ==
    \/ WBegin(r)
    \/ WCancelled(r)
    \/ WFileProcessed(r)
    \/ WFileSkipped(r)
    \/ WFailed(r)
    \/ WComplete(r)
    \/ WMetrics(r)
    \/ WHandler(r)
    \/ PubTry(r)
    \/ WClear(r)

GuiInit ==
    /\ NoService
    /\ FileIdle

GuiNext ==
    \/ GuiStep
    \/ \E r \in Runs : GuiWorkerStep(r)

GuiSpec == GuiInit /\ [][GuiNext]_vars

\* the step in which a run is started from the window
GuiStartsRun == \E r \in Runs : wpc[r] = "none" /\ wpc'[r] = "extract_begin"

\* the step in which the dispatch of a state message ends the extraction
\* the window has in progress
GuiEndsRun ==
    /\ gui.pc \in {"mainloop", "polling"}
    /\ gui'.pc = "polling"
    /\ gui.extraction_in_progress
    /\ ~gui'.extraction_in_progress

\* C39: whenever a run is started from the window the channel holds no
\* terminal state message of an earlier run, and the window never takes the
\* terminal message of an earlier run as the end of the run it has in
\* progress: the state message that ends it is dispatched only once the
\* worker of that run has published its own.
C39_NoStaleTerminalMessage ==
    [][/\ GuiStartsRun => ~HasState(queue)
       /\ GuiEndsRun => \A r \in alive : wloc[r].delivered > 0]_vars

====
